---- MODULE Spec2Model ----
(***************************************************************************)
(* A model of auto-react-test: the static analyzer analyzeComponent        *)
(* (src/src/utils/analyzeComponent.ts, hardened variant, lines 221-563),   *)
(* the two command-line entry points (src/cli/generate-test-file.ts and    *)
(* src/scripts/run-generator.ts) and the existence/force guard of          *)
(* generateTestFile (src/src/generateTest.ts).                             *)
(*                                                                         *)
(* The parsed syntax tree is a sequence of nodes in pre-order; each node   *)
(* carries the index of its parent (0 is the Program).  Only the node      *)
(* types the analyzer looks at are kept:                                   *)
(*   FunctionDeclaration      id, params; children = its body              *)
(*   VariableDeclarator       id (Identifier or pattern), init; when init  *)
(*                            is a function the children are that          *)
(*                            function's body, otherwise they are the      *)
(*                            expressions inside the initializer           *)
(*   JSXElement               name, attributes, direct children;           *)
(*                            children = nested markup / expressions       *)
(*   CallExpression           callee, arguments[0], arguments[1]; when     *)
(*                            arguments[0] is a function the children are  *)
(*                            the body of that callback                    *)
(* The initializer call of a pattern declarator (const [a, b] = f()) is    *)
(* kept inside the declarator node as init.callee.                         *)
(***************************************************************************)
EXTENDS Integers, Sequences, FiniteSets, TLC

VARIABLES
    entry,            \* "api" | "cli" | "script": who calls analyzeComponent
    argv,             \* process.argv.slice(2)
    source,           \* the component file: unreadable, unparsable, or its tree
    disk,             \* the __tests__ directory and the test file
    pc,               \* position in the running program
    ast,              \* the tree parser.parse returned
    componentName,
    pos,              \* the node pass 2 visits next
    elements,
    states,
    props,
    effectDeps,
    eventToSetterMap,
    effects,
    usesFetch,
    usesAxios,
    analyzedAPIs,
    result,           \* what analyzeComponent returned
    error,            \* what analyzeComponent threw
    analyzed,         \* the entry point's local `analyzed`
    stderr,           \* diagnostics printed with console.error
    exitCode,         \* process exit status
    ended             \* the invocations of analyzeComponent that are over

accVars == <<componentName, elements, states, props, effectDeps,
             eventToSetterMap, effects, usesFetch, usesAxios, analyzedAPIs>>
inVars == <<entry, argv, source, ended>>
outVars == <<result, error>>
cliVars == <<analyzed, stderr, exitCode, disk>>
vars == <<entry, argv, source, disk, pc, ast, componentName, pos, elements,
          states, props, effectDeps, eventToSetterMap, effects, usesFetch,
          usesAxios, analyzedAPIs, result, error, analyzed, stderr, exitCode,
          ended>>

(***************************************************************************)
(* Values that stand for JavaScript's undefined / nothing yet.             *)
(***************************************************************************)
Undefined == [kind |-> "undefined"]
NoAst == [exportDefault |-> [kind |-> "None"], nodes |-> <<>>]
FilePath == "src/App.tsx"

(***************************************************************************)
(* Tree navigation (Babel NodePath).                                       *)
(***************************************************************************)
RECURSIVE AncestorSeq(_, _)
\* The strict ancestors of node i, nearest first (the Program is left out).
AncestorSeq(nodes, i) ==
    IF i = 0 \/ nodes[i].parent = 0 THEN <<>>
    ELSE <<nodes[i].parent>> \o AncestorSeq(nodes, nodes[i].parent)

\* The first element of seq that is in S, or 0.
FirstIn(seq, S) ==
    IF \E k \in 1..Len(seq) : seq[k] \in S
    THEN seq[CHOOSE k \in 1..Len(seq) :
                 seq[k] \in S /\ \A j \in 1..(k-1) : seq[j] \notin S]
    ELSE 0

Descendants(nodes, i) ==
    {d \in 1..Len(nodes) : \E k \in 1..Len(AncestorSeq(nodes, d)) :
                               AncestorSeq(nodes, d)[k] = i}

isVariableDeclarator(n) == n.kind = "VariableDeclarator"
isFunctionDeclaration(n) == n.kind = "FunctionDeclaration"

\* ArrowFunctionExpression or FunctionExpression
isFunctionExpression(x) ==
    x.kind \in {"ArrowFunctionExpression", "FunctionExpression"}

\* The node holds a function whose body is the node's children.
HoldsFunction(n) ==
    \/ n.kind = "FunctionDeclaration"
    \/ n.kind = "VariableDeclarator" /\ isFunctionExpression(n.init)
    \/ n.kind = "CallExpression" /\ isFunctionExpression(n.arg0)

\* path.getFunctionParent() for a path whose strict ancestors are anc:
\* the node holding the nearest enclosing function, or 0.
getFunctionParent(nodes, anc) ==
    FirstIn(anc, {a \in 1..Len(nodes) : HoldsFunction(nodes[a])})

\* path.findParent((p) => p.isVariableDeclarator()), or 0.
findParentVariableDeclarator(nodes, anc) ==
    FirstIn(anc, {a \in 1..Len(nodes) : isVariableDeclarator(nodes[a])})

\* t.isIdentifier(x, { name })
isIdentifierNamed(x, name) == x.kind = "Identifier" /\ x.name = name

\* A callee that is `name` or `React.name`.
isHookCallee(callee, name) ==
    \/ isIdentifierNamed(callee, name)
    \/ /\ callee.kind = "MemberExpression"
       /\ isIdentifierNamed(callee.object, "React")
       /\ isIdentifierNamed(callee.property, name)

(***************************************************************************)
(* Optional values (string | undefined) are sequences of length <= 1, and  *)
(* property values (string | boolean) are tagged.                          *)
(***************************************************************************)
None == <<>>
Some(x) == <<x>>
Str(s) == [t |-> "string", v |-> s]
Bool(b) == [t |-> "boolean", v |-> b]
Null == [kind |-> "null"]

(***************************************************************************)
(* String primitives of the JavaScript runtime.                            *)
(***************************************************************************)
\* A prefix test that differs from startsWith in accepting every string.
startsWithAnything(s, prefix) == TRUE

\* s.startsWith(prefix)
startsWith(s, prefix) ==
    Len(s) >= Len(prefix) /\ SubSeq(s, 1, Len(prefix)) = prefix

UpperChars == <<"A","B","C","D","E","F","G","H","I","J","K","L","M",
                "N","O","P","Q","R","S","T","U","V","W","X","Y","Z">>
LowerChars == <<"a","b","c","d","e","f","g","h","i","j","k","l","m",
                "n","o","p","q","r","s","t","u","v","w","x","y","z">>
lowerChar(c) ==
    IF \E k \in 1..26 : UpperChars[k] = c
    THEN LowerChars[CHOOSE k \in 1..26 : UpperChars[k] = c]
    ELSE c

RECURSIVE toLowerCase(_)
\* s.toLowerCase()
toLowerCase(s) ==
    IF Len(s) = 0 THEN ""
    ELSE lowerChar(SubSeq(s, 1, 1)) \o toLowerCase(SubSeq(s, 2, Len(s)))

isWhitespace(c) == c \in {" ", "\n", "\t", "\r"}

RECURSIVE trimStart(_)
trimStart(s) ==
    IF Len(s) > 0 /\ isWhitespace(SubSeq(s, 1, 1))
    THEN trimStart(SubSeq(s, 2, Len(s)))
    ELSE s

RECURSIVE trimEnd(_)
trimEnd(s) ==
    IF Len(s) > 0 /\ isWhitespace(SubSeq(s, Len(s), Len(s)))
    THEN trimEnd(SubSeq(s, 1, Len(s) - 1))
    ELSE s

\* s.trim()
trim(s) == trimEnd(trimStart(s))

Digits == <<"0","1","2","3","4","5","6","7","8","9">>
RECURSIVE numberToString(_)
\* String(n) for a non-negative integer literal
numberToString(n) ==
    IF n < 10 THEN Digits[n + 1]
    ELSE numberToString(n \div 10) \o Digits[(n % 10) + 1]

\* String(b)
booleanToString(b) == IF b THEN "true" ELSE "false"

(***************************************************************************)
(* Component Locator.                                                      *)
(***************************************************************************)
\* A locator that differs from unwrapDefaultExport in one rule: for a call it
\* takes the first argument that is an identifier, wherever it stands.
unwrapDefaultExportAnyArgument(decl) ==
    IF decl.kind = "FunctionDeclaration" /\ decl.id.kind = "Identifier"
    THEN decl.id.name
    ELSE IF decl.kind = "Identifier"
    THEN decl.name
    ELSE IF /\ decl.kind = "CallExpression"
            /\ \E k \in 1..Len(decl.arguments) : decl.arguments[k].kind = "Identifier"
    THEN decl.arguments[CHOOSE k \in 1..Len(decl.arguments) :
                            /\ decl.arguments[k].kind = "Identifier"
                            /\ \A j \in 1..(k - 1) :
                                   decl.arguments[j].kind # "Identifier"].name
    ELSE ""

\* The name unwrapDefaultExport returns; "" stands for the empty object {}
\* (the caller tests `if (u.name)`, and an identifier is never empty).
unwrapDefaultExport(decl) ==
    IF decl.kind = "FunctionDeclaration" /\ decl.id.kind = "Identifier"
    THEN decl.id.name
    ELSE IF decl.kind = "Identifier"
    THEN decl.name
    ELSE IF /\ decl.kind = "CallExpression"
            /\ Len(decl.arguments) > 0
            /\ decl.arguments[1].kind = "Identifier"
    THEN decl.arguments[1].name
    ELSE ""

\* Pass 1: the ExportDefaultDeclaration visitor over the whole file.
pass1ComponentName(tree) ==
    IF tree.exportDefault.kind = "ExportDefaultDeclaration"
       /\ unwrapDefaultExport(tree.exportDefault.declaration) # ""
    THEN unwrapDefaultExport(tree.exportDefault.declaration)
    ELSE "Anonymous"

(***************************************************************************)
(* Scope filter.                                                           *)
(***************************************************************************)
isInsideComponent(nodes, anc, name) ==
    LET func == getFunctionParent(nodes, anc)
        varDecl == findParentVariableDeclarator(nodes, anc)
    IN  \/ /\ func # 0
           /\ isFunctionDeclaration(nodes[func])
           /\ isIdentifierNamed(nodes[func].id, name)
        \/ /\ varDecl # 0
           /\ isIdentifierNamed(nodes[varDecl].id, name)

(***************************************************************************)
(* Parameter inference.                                                    *)
(***************************************************************************)
RECURSIVE objectPatternNames(_)
objectPatternNames(properties) ==
    IF properties = <<>> THEN <<>>
    ELSE LET prop == Head(properties)
             fromProperty ==
                 IF prop.kind = "ObjectProperty" /\ prop.key.kind = "Identifier"
                 THEN <<prop.key.name>> ELSE <<>>
             fromRest ==
                 IF prop.kind = "RestElement" /\ prop.argument.kind = "Identifier"
                 THEN <<prop.argument.name>> ELSE <<>>
         IN  fromProperty \o fromRest \o objectPatternNames(Tail(properties))

\* The names collectPropsFromParams pushes for a function with these params.
collectPropsFromParams(params) ==
    IF Len(params) = 0 THEN <<>>
    ELSE LET param == params[1]
         IN  IF param.kind = "ObjectPattern"
             THEN objectPatternNames(param.properties)
             ELSE IF param.kind = "Identifier" THEN <<param.name>>
             ELSE <<>>

(***************************************************************************)
(* Element Records.                                                        *)
(***************************************************************************)
RECURSIVE getJsxName(_)
getJsxName(node) ==
    IF node.kind = "JSXIdentifier" THEN node.name
    ELSE IF node.kind = "JSXMemberExpression"
    THEN getJsxName(node.object) \o "." \o getJsxName(node.property)
    ELSE IF node.kind = "JSXNamespacedName"
    THEN node.namespace.name \o ":" \o getJsxName(node.name)
    ELSE "Unknown"

\* t.isLiteral(expr)
isLiteral(expr) ==
    expr.kind \in {"StringLiteral", "NumericLiteral", "BooleanLiteral",
                   "NullLiteral", "RegExpLiteral", "TemplateLiteral",
                   "BigIntLiteral"}

\* Node types that carry a `value` field that is not null.
hasValue(node) ==
    node.kind \in {"StringLiteral", "NumericLiteral", "BooleanLiteral",
                   "BigIntLiteral"}

\* A conversion that differs from literalToString on boolean literals, which
\* it turns into the strings "true" and "false".
literalToStringOfBoolean(node) ==
    IF node.kind = "StringLiteral" THEN Str(node.value)
    ELSE IF node.kind = "NumericLiteral" THEN Str(numberToString(node.value))
    ELSE IF node.kind = "BooleanLiteral" THEN Str(booleanToString(node.value))
    ELSE IF hasValue(node) THEN Str(node.value)
    ELSE Str("dynamic")

literalToString(node) ==
    IF node.kind = "StringLiteral" THEN Str(node.value)
    ELSE IF node.kind = "NumericLiteral" THEN Str(numberToString(node.value))
    ELSE IF node.kind = "BooleanLiteral" THEN Bool(node.value)
    ELSE IF hasValue(node) THEN Str(node.value)
    ELSE Str("dynamic")

\* m with key k bound to v (propsObj[key] = v)
Put(m, k, v) == [x \in DOMAIN m \cup {k} |-> IF x = k THEN v ELSE m[x]]
EmptyMap == [x \in {} |-> None]

\* One round of the loop of getJsxProps over attribute attr.
jsxAttributeStep(acc, attr) ==
    IF attr.kind = "JSXSpreadAttribute" THEN acc
    ELSE IF ~(attr.kind = "JSXAttribute" /\ attr.name.kind = "JSXIdentifier")
    THEN acc
    ELSE
      LET key == attr.name.name
          val == attr.value
          expr == val.expression
          inner == expr.expression
          value ==
              IF val.kind = "null" THEN Bool(TRUE)
              ELSE IF val.kind = "StringLiteral" THEN Str(val.value)
              ELSE IF val.kind = "JSXExpressionContainer"
              THEN IF expr.kind = "Identifier" THEN Str("expr:" \o expr.name)
                   ELSE IF isLiteral(expr) THEN literalToString(expr)
                   ELSE IF expr.kind \in {"TSAsExpression", "TypeCastExpression"}
                   THEN IF inner.kind = "Identifier"
                        THEN Str("expr:" \o inner.name)
                        ELSE literalToString(inner)
                   ELSE Str("dynamic")
              ELSE Str("unknown")
          handler ==
              IF val.kind = "JSXExpressionContainer"
              THEN IF expr.kind = "Identifier" THEN Some(expr.name)
                   ELSE IF /\ expr.kind \in {"TSAsExpression", "TypeCastExpression"}
                           /\ inner.kind = "Identifier"
                   THEN Some(inner.name)
                   ELSE None
              ELSE None
      IN  [props  |-> Put(acc.props, key, value),
           testId |-> IF key = "data-testid" /\ val.kind = "StringLiteral"
                      THEN Some(val.value) ELSE acc.testId,
           events |-> IF handler # None /\ startsWith(key, "on")
                      THEN Put(acc.events, key, handler[1])
                      ELSE acc.events]

RECURSIVE jsxAttributeLoop(_, _)
jsxAttributeLoop(acc, attrs) ==
    IF attrs = <<>> THEN acc
    ELSE jsxAttributeLoop(jsxAttributeStep(acc, Head(attrs)), Tail(attrs))

getJsxProps(attrs) ==
    jsxAttributeLoop([props |-> EmptyMap, testId |-> None, events |-> EmptyMap],
                     attrs)

\* props[key] === s
propIs(jsxProps, key, s) ==
    key \in DOMAIN jsxProps /\ jsxProps[key] = Str(s)

\* String(props["type"] ?? "").toLowerCase()
typeOf(jsxProps) ==
    IF "type" \notin DOMAIN jsxProps THEN ""
    ELSE IF jsxProps["type"].t = "boolean"
    THEN toLowerCase(booleanToString(jsxProps["type"].v))
    ELSE toLowerCase(jsxProps["type"].v)

\* A role guess that differs from guessRole in one respect: it does not look
\* at the type attribute of an input.
guessRoleAnyType(name, jsxProps) ==
    LET lower == toLowerCase(name)
    IN  IF lower = "button" \/ propIs(jsxProps, "role", "button")
        THEN Some("button")
        ELSE IF lower = "input" \/ propIs(jsxProps, "role", "textbox")
        THEN Some("textbox")
        ELSE IF lower = "a" \/ propIs(jsxProps, "role", "link") THEN Some("link")
        ELSE IF lower = "img" \/ propIs(jsxProps, "role", "img") THEN Some("img")
        ELSE None

guessRole(name, jsxProps) ==
    LET lower == toLowerCase(name)
    IN  IF lower = "button" \/ propIs(jsxProps, "role", "button")
        THEN Some("button")
        ELSE IF /\ lower = "input" \/ propIs(jsxProps, "role", "textbox")
                /\ typeOf(jsxProps) \in {"", "text"}
        THEN Some("textbox")
        ELSE IF lower = "a" \/ propIs(jsxProps, "role", "link") THEN Some("link")
        ELSE IF lower = "img" \/ propIs(jsxProps, "role", "img") THEN Some("img")
        ELSE None

\* A text lookup that differs from firstText in one respect: it returns the
\* text as written, without trimming it.
firstTextUntrimmed(children) ==
    LET k == FirstIn([i \in 1..Len(children) |-> i],
                     {i \in 1..Len(children) : children[i].kind = "JSXText"})
    IN  IF k = 0 THEN None ELSE Some(children[k].value)

\* path.node.children.find((c) => t.isJSXText(c)), trimmed
firstText(children) ==
    LET k == FirstIn([i \in 1..Len(children) |-> i],
                     {i \in 1..Len(children) : children[i].kind = "JSXText"})
    IN  IF k = 0 THEN None ELSE Some(trim(children[k].value))

\* An Element Record that differs from elementRecord in the test identifier,
\* which it trims.
elementRecordTrimmedId(n) ==
    LET got == getJsxProps(n.attributes)
        type == getJsxName(n.name)
    IN  [type |-> type, props |-> got.props, text |-> firstText(n.children),
         testId |-> IF got.testId = None THEN None ELSE Some(trim(got.testId[1])),
         events |-> got.events,
         roleHint |-> guessRole(type, got.props)]

\* The record the JSXElement visitor pushes for node n.
elementRecord(n) ==
    LET got == getJsxProps(n.attributes)
        type == getJsxName(n.name)
    IN  [type |-> type, props |-> got.props, text |-> firstText(n.children),
         testId |-> got.testId, events |-> got.events,
         roleHint |-> guessRole(type, got.props)]

(***************************************************************************)
(* The accumulators of one invocation, and the pass 2 visitors as          *)
(* functions from accumulators to accumulators.                            *)
(***************************************************************************)
freshAccumulators(name) ==
    [componentName |-> name, elements |-> <<>>, states |-> <<>>,
     props |-> <<>>, effectDeps |-> <<>>, eventToSetterMap |-> EmptyMap,
     effects |-> FALSE, usesFetch |-> FALSE, usesAxios |-> FALSE,
     analyzedAPIs |-> <<>>]

visitFunctionDeclaration(acc, nodes, i) ==
    IF isIdentifierNamed(nodes[i].id, acc.componentName)
    THEN [acc EXCEPT !.props = @ \o collectPropsFromParams(nodes[i].params)]
    ELSE acc

\* The State Pairs the useState rule pushes for declarator n (none or one).
statePairs(n) ==
    IF /\ n.id.kind = "ArrayPattern"
       /\ n.init.kind = "CallExpression"
       /\ isHookCallee(n.init.callee, "useState")
    THEN LET els == n.id.elements
             stateVar == IF Len(els) >= 1 THEN els[1] ELSE Undefined
             stateSetter == IF Len(els) >= 2 THEN els[2] ELSE Undefined
         IN  IF stateVar.kind = "Identifier" /\ stateSetter.kind = "Identifier"
             THEN <<[stateVar |-> stateVar.name, setter |-> stateSetter.name]>>
             ELSE <<>>
    ELSE <<>>

visitVariableDeclarator(acc, nodes, i) ==
    LET n == nodes[i]
        a1 == IF /\ isIdentifierNamed(n.id, acc.componentName)
                 /\ isFunctionExpression(n.init)
              THEN [acc EXCEPT !.props = @ \o collectPropsFromParams(n.init.params)]
              ELSE acc
    IN  IF ~isInsideComponent(nodes, AncestorSeq(nodes, i), acc.componentName)
        THEN a1
        ELSE [a1 EXCEPT !.states = @ \o statePairs(n)]

visitJSXElement(acc, nodes, i) ==
    IF ~isInsideComponent(nodes, AncestorSeq(nodes, i), acc.componentName)
    THEN acc
    ELSE [acc EXCEPT !.elements = Append(@, elementRecord(nodes[i]))]

\* arguments[0] when it is a string literal, else "unknown"
urlOf(call) ==
    IF call.arg0.kind = "StringLiteral" THEN call.arg0.value ELSE "unknown"

isAxiosCall(call) ==
    /\ call.callee.kind = "MemberExpression"
    /\ isIdentifierNamed(call.callee.object, "axios")
    /\ call.callee.property.kind = "Identifier"

isFetchCall(call) == isIdentifierNamed(call.callee, "fetch")

\* What the inner CallExpression visitor pushes for one call of the effect body.
apiRecords(call) ==
    (IF isAxiosCall(call)
     THEN <<[type |-> "axios", method |-> call.callee.property.name,
             url |-> urlOf(call)]>>
     ELSE <<>>)
    \o
    (IF isFetchCall(call)
     THEN <<[type |-> "fetch", url |-> urlOf(call)]>>
     ELSE <<>>)

\* The call expression found at node n: the node itself, or the initializer
\* call of a pattern declarator.
callsAt(n) ==
    IF n.kind = "CallExpression" THEN <<n>>
    ELSE IF n.kind = "VariableDeclarator" /\ n.init.kind = "CallExpression"
    THEN <<n.init>>
    ELSE <<>>

RECURSIVE bodyApis(_, _, _)
\* traverse(t.file(t.program(statements)), { CallExpression }) over the body
\* of the callback held by node i: the records of the calls at nodes d.. in
\* pre-order.
bodyApis(nodes, i, d) ==
    IF d > Len(nodes) THEN <<>>
    ELSE (IF d \in Descendants(nodes, i) /\ callsAt(nodes[d]) # <<>>
          THEN apiRecords(callsAt(nodes[d])[1]) ELSE <<>>)
         \o bodyApis(nodes, i, d + 1)

RECURSIVE identifierNames(_)
\* deps.elements.forEach((el) => { if (t.isIdentifier(el)) push(el.name) })
identifierNames(els) ==
    IF els = <<>> THEN <<>>
    ELSE (IF Head(els).kind = "Identifier" THEN <<Head(els).name>> ELSE <<>>)
         \o identifierNames(Tail(els))

\* A useEffect branch that differs from effectBranch in one respect: it never
\* raises usesFetch.
effectBranchNoFetchFlag(acc, nodes, call, i) ==
    IF ~isHookCallee(call.callee, "useEffect") THEN acc
    ELSE LET found == IF i # 0 /\ isFunctionExpression(call.arg0)
                      THEN bodyApis(nodes, i, i + 1) ELSE <<>>
             deps == IF call.arg1.kind = "ArrayExpression"
                     THEN identifierNames(call.arg1.elements) ELSE <<>>
         IN  [acc EXCEPT
                 !.effects = TRUE,
                 !.effectDeps = @ \o deps,
                 !.analyzedAPIs = @ \o found,
                 !.usesAxios = @ \/ \E k \in 1..Len(found) : found[k].type = "axios"]

\* The useEffect branch for a call; i is the node holding the callback body
\* (0 for a call that has no node of its own).
effectBranch(acc, nodes, call, i) ==
    IF ~isHookCallee(call.callee, "useEffect") THEN acc
    ELSE LET found == IF i # 0 /\ isFunctionExpression(call.arg0)
                      THEN bodyApis(nodes, i, i + 1) ELSE <<>>
             deps == IF call.arg1.kind = "ArrayExpression"
                     THEN identifierNames(call.arg1.elements) ELSE <<>>
         IN  [acc EXCEPT
                 !.effects = TRUE,
                 !.effectDeps = @ \o deps,
                 !.analyzedAPIs = @ \o found,
                 !.usesAxios = @ \/ \E k \in 1..Len(found) : found[k].type = "axios",
                 !.usesFetch = @ \/ \E k \in 1..Len(found) : found[k].type = "fetch"]

\* The name derived for the function held by node h ("" when none).
handlerName(n) ==
    IF n.kind = "VariableDeclarator" /\ isFunctionExpression(n.init)
    THEN IF n.id.kind = "Identifier" THEN n.id.name ELSE ""
    ELSE IF n.kind = "FunctionDeclaration" /\ n.id.kind = "Identifier"
    THEN n.id.name
    ELSE ""

\* eventToSetterMap[name].push(setterName), creating the entry if absent
pushSetter(m, name, setterName) ==
    Put(m, name, (IF name \in DOMAIN m THEN m[name] ELSE <<>>) \o <<setterName>>)

setterBranch(acc, nodes, call, anc) ==
    IF call.callee.kind # "Identifier" THEN acc
    ELSE LET setterName == call.callee.name
             matched == \E k \in 1..Len(acc.states) :
                            acc.states[k].setter = setterName
             handlerFunc == getFunctionParent(nodes, anc)
         IN  IF matched /\ handlerFunc # 0 /\ handlerName(nodes[handlerFunc]) # ""
             THEN [acc EXCEPT !.eventToSetterMap =
                      pushSetter(@, handlerName(nodes[handlerFunc]), setterName)]
             ELSE acc

\* A CallExpression visitor that differs from visitCallExpression in one
\* respect: it also records the call itself when it is a network call,
\* whether or not it stands in an effect callback.
visitCallExpressionAnyCall(acc, nodes, call, anc, i) ==
    IF ~isInsideComponent(nodes, anc, acc.componentName) THEN acc
    ELSE LET a == setterBranch(effectBranch(acc, nodes, call, i), nodes, call, anc)
             found == apiRecords(call)
         IN  [a EXCEPT
                 !.analyzedAPIs = @ \o found,
                 !.usesAxios = @ \/ \E k \in 1..Len(found) : found[k].type = "axios",
                 !.usesFetch = @ \/ \E k \in 1..Len(found) : found[k].type = "fetch"]

\* The CallExpression visitor for a call whose strict ancestors are anc.
visitCallExpression(acc, nodes, call, anc, i) ==
    IF ~isInsideComponent(nodes, anc, acc.componentName) THEN acc
    ELSE setterBranch(effectBranch(acc, nodes, call, i), nodes, call, anc)

\* Everything the traversal does on entering node i: the visitor of the
\* node's type, and for a pattern declarator the CallExpression visitor of
\* its initializer call, which is entered next.
visitNode(acc, nodes, i) ==
    LET n == nodes[i]
    IN  IF n.kind = "FunctionDeclaration" THEN visitFunctionDeclaration(acc, nodes, i)
        ELSE IF n.kind = "VariableDeclarator"
        THEN LET a1 == visitVariableDeclarator(acc, nodes, i)
             IN  IF n.init.kind = "CallExpression"
                 THEN visitCallExpression(a1, nodes, n.init,
                                          <<i>> \o AncestorSeq(nodes, i), 0)
                 ELSE a1
        ELSE IF n.kind = "JSXElement" THEN visitJSXElement(acc, nodes, i)
        ELSE IF n.kind = "CallExpression"
        THEN visitCallExpression(acc, nodes, n, AncestorSeq(nodes, i), i)
        ELSE acc

RECURSIVE analyzeFrom(_, _, _)
\* Pass 2 from node p on: the visitors applied in pre-order.
analyzeFrom(acc, nodes, p) ==
    IF p > Len(nodes) THEN acc
    ELSE analyzeFrom(visitNode(acc, nodes, p), nodes, p + 1)

\* analyzeComponent on a file that parses to `tree`: the record returned.
analyzeTree(tree) ==
    LET a == analyzeFrom(freshAccumulators(pass1ComponentName(tree)), tree.nodes, 1)
    IN  [name |-> a.componentName, elements |-> a.elements, states |-> a.states,
         effects |-> a.effects, props |-> a.props, usesFetch |-> a.usesFetch,
         usesAxios |-> a.usesAxios, apis |-> a.analyzedAPIs,
         effectDeps |-> a.effectDeps, eventToSetterMap |-> a.eventToSetterMap]

(***************************************************************************)
(* generateTestFile: the paths, the existence guard and the write.         *)
(***************************************************************************)
RECURSIVE lastIndexOf(_, _, _)
\* The last position <= k of character c in s, or 0.
lastIndexOf(s, c, k) ==
    IF k = 0 THEN 0
    ELSE IF SubSeq(s, k, k) = c THEN k
    ELSE lastIndexOf(s, c, k - 1)

\* path.basename(filePath, path.extname(filePath))
basenameNoExt(filePath) ==
    LET slash == lastIndexOf(filePath, "/", Len(filePath))
        base == SubSeq(filePath, slash + 1, Len(filePath))
        dot == lastIndexOf(base, ".", Len(base))
    IN  IF dot <= 1 THEN base ELSE SubSeq(base, 1, dot - 1)

\* The fallback for a missing analysis.
fallbackAnalyzed(name) ==
    [name |-> name, elements |-> <<>>, states |-> <<>>, effects |-> FALSE,
     props |-> <<>>, usesFetch |-> FALSE, usesAxios |-> FALSE, apis |-> <<>>,
     effectDeps |-> <<>>, eventToSetterMap |-> EmptyMap]

\* The text written: a template expansion of the component's file name and
\* the analysis, kept as the pair it is a function of.
testContent(name, a) == [component |-> name, from |-> a]

\* A generator that differs from generateTestFile in one respect: it has no
\* guard on an existing test file and writes whenever it can.
generateTestFileOverwrites(d, filePath, a, force) ==
    LET name == basenameNoExt(filePath)
        used == IF a = Undefined THEN fallbackAnalyzed(name) ELSE a
    IN  IF ~d.testDir /\ ~d.writable THEN [disk |-> d, threw |-> TRUE]
        ELSE IF ~d.writable THEN [disk |-> [d EXCEPT !.testDir = TRUE], threw |-> TRUE]
        ELSE [disk |-> [d EXCEPT !.testDir = TRUE,
                                 !.testFile = Some(testContent(name, used))],
              threw |-> FALSE]

\* generateTestFile(filePath, a, opts) on disk d: the disk afterwards and
\* whether a file-system call threw.
generateTestFile(d, filePath, a, force) ==
    LET name == basenameNoExt(filePath)
        used == IF a = Undefined THEN fallbackAnalyzed(name) ELSE a
    IN  IF ~d.testDir /\ ~d.writable THEN [disk |-> d, threw |-> TRUE]
        ELSE IF d.testFile # None /\ ~force
        THEN [disk |-> [d EXCEPT !.testDir = TRUE], threw |-> FALSE]
        ELSE IF ~d.writable THEN [disk |-> [d EXCEPT !.testDir = TRUE], threw |-> TRUE]
        ELSE [disk |-> [d EXCEPT !.testDir = TRUE,
                                 !.testFile = Some(testContent(name, used))],
              threw |-> FALSE]

(***************************************************************************)
(* The state machine.                                                      *)
(***************************************************************************)
Acc ==
    [componentName |-> componentName, elements |-> elements, states |-> states,
     props |-> props, effectDeps |-> effectDeps,
     eventToSetterMap |-> eventToSetterMap, effects |-> effects,
     usesFetch |-> usesFetch, usesAxios |-> usesAxios,
     analyzedAPIs |-> analyzedAPIs]

SetAcc(a) ==
    /\ componentName' = a.componentName
    /\ elements' = a.elements
    /\ states' = a.states
    /\ props' = a.props
    /\ effectDeps' = a.effectDeps
    /\ eventToSetterMap' = a.eventToSetterMap
    /\ effects' = a.effects
    /\ usesFetch' = a.usesFetch
    /\ usesAxios' = a.usesAxios
    /\ analyzedAPIs' = a.analyzedAPIs

\* The states a run starts in, for the given inputs.
InitWith(entries, argvs, sources, disks) ==
    /\ entry \in entries
    /\ argv \in argvs
    /\ source \in sources
    /\ disk \in disks
    /\ pc = IF entry = "api" THEN "read" ELSE "main"
    /\ ast = NoAst
    /\ componentName = "Anonymous"
    /\ elements = <<>>
    /\ states = <<>>
    /\ props = <<>>
    /\ effectDeps = <<>>
    /\ eventToSetterMap = EmptyMap
    /\ effects = FALSE
    /\ usesFetch = FALSE
    /\ usesAxios = FALSE
    /\ analyzedAPIs = <<>>
    /\ pos = 0
    /\ result = Undefined
    /\ error = Undefined
    /\ analyzed = Undefined
    /\ stderr = <<>>
    /\ exitCode = None
    /\ ended = <<>>

\* The entry point checks its arguments and resolves the path.
Main ==
    /\ pc = "main"
    /\ IF Len(argv) = 0
       THEN /\ stderr' = Append(stderr, "Please provide a component path")
            /\ exitCode' = Some(1)
            /\ pc' = "exited"
       ELSE /\ pc' = "read"
            /\ UNCHANGED <<stderr, exitCode>>
    /\ UNCHANGED <<inVars, accVars, outVars, ast, pos, analyzed, disk>>

\* A reader that differs from ReadFile on an unreadable file: it returns the
\* accumulators as they stand instead of throwing.
ReadFileReturnsPartial ==
    /\ pc = "read"
    /\ IF source.status = "unreadable"
       THEN /\ result' = [name |-> componentName, elements |-> elements,
                          states |-> states]
            /\ pc' = "returned"
       ELSE /\ pc' = "parse"
            /\ UNCHANGED result
    /\ UNCHANGED <<inVars, accVars, cliVars, ast, pos, error>>

ReadFile ==
    /\ pc = "read"
    /\ IF source.status = "unreadable"
       THEN /\ error' = [message |-> "Failed to read file \"" \o FilePath
                                           \o "\": " \o source.cause]
            /\ pc' = "raised"
       ELSE /\ pc' = "parse"
            /\ UNCHANGED error
    /\ UNCHANGED <<inVars, accVars, cliVars, ast, pos, result>>

Parse ==
    /\ pc = "parse"
    /\ IF source.status = "unparsable"
       THEN /\ error' = [message |-> "Failed to parse \"" \o FilePath
                                           \o "\": " \o source.cause]
            /\ pc' = "raised"
            /\ UNCHANGED ast
       ELSE /\ ast' = source.ast
            /\ pc' = "pass1"
            /\ UNCHANGED error
    /\ UNCHANGED <<inVars, accVars, cliVars, pos, result>>

\* The first node at or after p that has a visitor (function expressions
\* have none: the traversal only passes through them).
nextVisited(nodes, p) ==
    LET visited == {j \in p..Len(nodes) :
                       nodes[j].kind \in {"FunctionDeclaration", "VariableDeclarator",
                                          "JSXElement", "CallExpression"}}
    IN  IF visited = {} THEN Len(nodes) + 1
        ELSE CHOOSE j \in visited : \A k \in visited : j <= k

\* A pass 1 that differs from Pass1 in one respect: the accumulators are
\* not allocated by the invocation but kept from one invocation to the next.
Pass1KeepsAccumulators ==
    /\ pc = "pass1"
    /\ SetAcc([Acc EXCEPT !.componentName = pass1ComponentName(ast)])
    /\ pos' = nextVisited(ast.nodes, 1)
    /\ pc' = "pass2"
    /\ UNCHANGED <<inVars, outVars, cliVars, ast>>

Pass1 ==
    /\ pc = "pass1"
    /\ SetAcc(freshAccumulators(pass1ComponentName(ast)))
    /\ pos' = nextVisited(ast.nodes, 1)
    /\ pc' = "pass2"
    /\ UNCHANGED <<inVars, outVars, cliVars, ast>>

\* The traversal is at a node of the given type.
AtNode(kind) ==
    /\ pc = "pass2"
    /\ pos <= Len(ast.nodes)
    /\ ast.nodes[pos].kind = kind

VisitFunctionDeclaration ==
    /\ AtNode("FunctionDeclaration")
    /\ SetAcc(visitFunctionDeclaration(Acc, ast.nodes, pos))
    /\ pos' = nextVisited(ast.nodes, pos + 1)
    /\ UNCHANGED <<inVars, outVars, cliVars, ast, pc>>

\* The declarator's visitor, then the CallExpression visitor of its
\* initializer call when it has one (the traversal enters it next).
VisitVariableDeclarator ==
    /\ AtNode("VariableDeclarator")
    /\ SetAcc(visitNode(Acc, ast.nodes, pos))
    /\ pos' = nextVisited(ast.nodes, pos + 1)
    /\ UNCHANGED <<inVars, outVars, cliVars, ast, pc>>

\* A JSXElement visitor that differs from VisitJSXElement on an element with
\* a spread attribute: it reads the attribute's name without a type guard,
\* and the read of `name` of undefined throws.
VisitJSXElementUnguarded ==
    /\ AtNode("JSXElement")
    /\ IF \E k \in 1..Len(ast.nodes[pos].attributes) :
              ast.nodes[pos].attributes[k].kind = "JSXSpreadAttribute"
       THEN /\ error' = [message |-> "Cannot read properties of undefined"]
            /\ pc' = "raised"
            /\ UNCHANGED <<accVars, pos, result>>
       ELSE /\ SetAcc(visitJSXElement(Acc, ast.nodes, pos))
            /\ pos' = nextVisited(ast.nodes, pos + 1)
            /\ UNCHANGED <<outVars, pc>>
    /\ UNCHANGED <<inVars, cliVars, ast>>

VisitJSXElement ==
    /\ AtNode("JSXElement")
    /\ SetAcc(visitJSXElement(Acc, ast.nodes, pos))
    /\ pos' = nextVisited(ast.nodes, pos + 1)
    /\ UNCHANGED <<inVars, outVars, cliVars, ast, pc>>

VisitCallExpression ==
    /\ AtNode("CallExpression")
    /\ SetAcc(visitCallExpression(Acc, ast.nodes, ast.nodes[pos],
                                  AncestorSeq(ast.nodes, pos), pos))
    /\ pos' = nextVisited(ast.nodes, pos + 1)
    /\ UNCHANGED <<inVars, outVars, cliVars, ast, pc>>

AnalyzedComponent ==
    [name |-> componentName, elements |-> elements, states |-> states,
     effects |-> effects, props |-> props, usesFetch |-> usesFetch,
     usesAxios |-> usesAxios, apis |-> analyzedAPIs,
     effectDeps |-> effectDeps, eventToSetterMap |-> eventToSetterMap]

Return ==
    /\ pc = "pass2"
    /\ pos > Len(ast.nodes)
    /\ result' = AnalyzedComponent
    /\ pc' = "returned"
    /\ UNCHANGED <<inVars, accVars, cliVars, ast, pos, error>>

\* cli/generate-test-file.ts: try { analyzed = analyzeComponent(...) }
CliTry ==
    /\ entry = "cli"
    /\ pc = "returned"
    /\ analyzed' = result
    /\ pc' = "generate"
    /\ UNCHANGED <<inVars, accVars, outVars, ast, pos, stderr, exitCode, disk>>

\* cli/generate-test-file.ts: catch { analyzed = undefined }
CliCatch ==
    /\ entry = "cli"
    /\ pc = "raised"
    /\ analyzed' = Undefined
    /\ pc' = "generate"
    /\ UNCHANGED <<inVars, accVars, outVars, ast, pos, stderr, exitCode, disk>>

\* scripts/run-generator.ts: const analyzed = analyzeComponent(filePath)
ScriptTry ==
    /\ entry = "script"
    /\ pc = "returned"
    /\ analyzed' = result
    /\ pc' = "generate"
    /\ UNCHANGED <<inVars, accVars, outVars, ast, pos, stderr, exitCode, disk>>

\* A handler that differs from ScriptCatch for an analyzer error: it goes on
\* to the generator without an analysis instead of exiting.
ScriptCatchSwallows ==
    /\ entry = "script"
    /\ pc \in {"raised", "generateThrew"}
    /\ IF pc = "raised"
       THEN /\ pc' = "generate"
            /\ UNCHANGED <<stderr, exitCode>>
       ELSE /\ stderr' = Append(stderr, "Error analyzing or generating test file")
            /\ exitCode' = Some(1)
            /\ pc' = "exited"
    /\ UNCHANGED <<inVars, accVars, outVars, ast, pos, analyzed, disk>>

\* scripts/run-generator.ts: catch (err) { console.error(...); process.exit(1) }
ScriptCatch ==
    /\ entry = "script"
    /\ pc \in {"raised", "generateThrew"}
    /\ stderr' = Append(stderr, "Error analyzing or generating test file")
    /\ exitCode' = Some(1)
    /\ pc' = "exited"
    /\ UNCHANGED <<inVars, accVars, outVars, ast, pos, analyzed, disk>>

\* generateTestFile(path, analyzed), called without opts by both entry points.
Generate ==
    /\ pc = "generate"
    /\ LET g == generateTestFile(disk, FilePath, analyzed, FALSE)
       IN  /\ disk' = g.disk
           /\ IF g.threw
              THEN pc' = "generateThrew" /\ UNCHANGED exitCode
              ELSE pc' = "exited" /\ exitCode' = Some(0)
    /\ UNCHANGED <<inVars, accVars, outVars, ast, pos, analyzed, stderr>>

\* cli/generate-test-file.ts has no handler around generateTestFile: the
\* exception ends the process.
CliUncaught ==
    /\ entry = "cli"
    /\ pc = "generateThrew"
    /\ stderr' = Append(stderr, "Uncaught exception")
    /\ exitCode' = Some(1)
    /\ pc' = "exited"
    /\ UNCHANGED <<inVars, accVars, outVars, ast, pos, analyzed, disk>>

NextAnalyze ==
    \/ ReadFile
    \/ Parse
    \/ Pass1
    \/ VisitFunctionDeclaration
    \/ VisitVariableDeclarator
    \/ VisitJSXElement
    \/ VisitCallExpression
    \/ Return

Next ==
    \/ Main
    \/ NextAnalyze
    \/ CliTry
    \/ CliCatch
    \/ ScriptTry
    \/ ScriptCatch
    \/ Generate
    \/ CliUncaught

(***************************************************************************)
(* Syntax trees: constructors and the bounded families the runs start      *)
(* from.                                                                   *)
(***************************************************************************)
Id(name) == [kind |-> "Identifier", name |-> name]
Member(object, property) ==
    [kind |-> "MemberExpression", object |-> Id(object), property |-> Id(property)]
StringLiteral(s) == [kind |-> "StringLiteral", value |-> s]
ArrayExpression(els) == [kind |-> "ArrayExpression", elements |-> els]
ArrowFunction(params) == [kind |-> "ArrowFunctionExpression", params |-> params]
Other == [kind |-> "Other"]

\* function name(params) { ... }
FunctionDecl(name, params) ==
    [kind |-> "FunctionDeclaration", parent |-> 0, id |-> Id(name), params |-> params]
\* const name = (params) => ...
VarFunction(name, params) ==
    [kind |-> "VariableDeclarator", parent |-> 0, id |-> Id(name),
     init |-> ArrowFunction(params)]
\* const name = <an expression that is neither a function nor a call>
VarOther(name) ==
    [kind |-> "VariableDeclarator", parent |-> 0, id |-> Id(name), init |-> Other]
\* const [els] = callee(...)
VarPatternCall(els, callee) ==
    [kind |-> "VariableDeclarator", parent |-> 0,
     id |-> [kind |-> "ArrayPattern", elements |-> els],
     init |-> [kind |-> "CallExpression", callee |-> callee, arg0 |-> Undefined,
               arg1 |-> Undefined]]
\* callee(arg0, arg1)
Call(callee, arg0, arg1) ==
    [kind |-> "CallExpression", parent |-> 0, callee |-> callee, arg0 |-> arg0,
     arg1 |-> arg1]
\* <tag attributes>children</tag>
JSX(tag, attributes, children) ==
    [kind |-> "JSXElement", parent |-> 0,
     name |-> [kind |-> "JSXIdentifier", name |-> tag],
     attributes |-> attributes, children |-> children]

\* Declarations are statements; the rest are expressions.
IsStatement(n) == n.kind \in {"FunctionDeclaration", "VariableDeclarator"}

\* The identifiers a declaration binds in the scope it stands in.
BoundNames(n) ==
    IF n.kind = "FunctionDeclaration" THEN {n.id.name}
    ELSE IF n.kind = "VariableDeclarator"
    THEN IF n.id.kind = "Identifier" THEN {n.id.name}
         ELSE {n.id.elements[k].name :
                   k \in {j \in 1..Len(n.id.elements) :
                              n.id.elements[j].kind = "Identifier"}}
    ELSE {}

\* Whether a node labelled l can stand directly under p (0: the Program) in
\* tree t: statements stand in bodies, expressions also inside initializers
\* and markup; a scope binds a name once.
CanHold(t, p, l) ==
    /\ \/ p = 0
       \/ HoldsFunction(t[p])
       \/ /\ ~IsStatement(l)
          /\ \/ t[p].kind = "JSXElement"
             \/ t[p].kind = "VariableDeclarator" /\ t[p].init.kind = "Other"
    /\ \A k \in 1..Len(t) :
           t[k].parent = p => BoundNames(t[k]) \cap BoundNames(l) = {}

\* The nodes a next node in pre-order can hang from.
Spine(t) ==
    IF t = <<>> THEN {0}
    ELSE {0, Len(t)} \cup {AncestorSeq(t, Len(t))[k] :
                              k \in 1..Len(AncestorSeq(t, Len(t)))}

RECURSIVE TreesOfSize(_, _)
\* The trees of exactly n nodes with labels from `labels`, in pre-order.
TreesOfSize(labels, n) ==
    IF n = 0 THEN {<<>>}
    ELSE UNION {{Append(tl[1], [tl[2] EXCEPT !.parent = p]) :
                    p \in {q \in Spine(tl[1]) : CanHold(tl[1], q, tl[2])}} :
                tl \in TreesOfSize(labels, n - 1) \X labels}

TreesUpTo(labels, n) == UNION {TreesOfSize(labels, k) : k \in 0..n}

\* export default <declaration>
ExportDefault(declaration) ==
    [kind |-> "ExportDefaultDeclaration", declaration |-> declaration]
NoExport == [kind |-> "None"]

Parsed(exportDefault, nodes) ==
    [status |-> "ok", ast |-> [exportDefault |-> exportDefault, nodes |-> nodes]]
Unreadable == [status |-> "unreadable", cause |-> "ENOENT: no such file or directory"]
Unparsable == [status |-> "unparsable", cause |-> "Unexpected token"]

NoDisk == [testDir |-> FALSE, testFile |-> None, writable |-> TRUE]
\* A test file written by hand before the run.
OldContent == [component |-> "App", from |-> Undefined]
Disks ==
    {d \in [testDir : BOOLEAN, testFile : {None, Some(OldContent)},
            writable : BOOLEAN] : d.testFile # None => d.testDir}

\* The node shapes the families are built from.
StatePair == VarPatternCall(<<Id("input"), Id("setInput")>>, Id("useState"))
SetterCall == Call(Id("setInput"), StringLiteral(""), Undefined)
Div == JSX("div", <<>>, <<>>)
\* items.map((item) => ...)
MapCall == Call(Member("items", "map"), ArrowFunction(<<Id("item")>>), Undefined)
\* useEffect(() => { ... }, [id, 1])
Effect ==
    Call(Id("useEffect"), ArrowFunction(<<>>),
         ArrayExpression(<<Id("id"), [kind |-> "NumericLiteral", value |-> 1]>>))
\* React.useEffect(() => { ... })
ReactEffect == Call(Member("React", "useEffect"), ArrowFunction(<<>>), Undefined)
\* fetch("/api/items")
Fetch == Call(Id("fetch"), StringLiteral("/api/items"), Undefined)
\* axios.post(url)
AxiosPost == Call(Member("axios", "post"), Id("url"), Undefined)

\* Node n hung under node p.
At(n, p) == [n EXCEPT !.parent = p]

\* function App() {
\*   useEffect(() => { fetch("/api/items") }, [id, 1]);
\*   const onSubmit = () => { fetch("/api/items") };
\*   fetch("/api/items");
\* }
SubmitScenario ==
    <<FunctionDecl("App", <<>>), At(Effect, 1), At(Fetch, 2),
      At(VarFunction("onSubmit", <<>>), 1), At(Fetch, 4), At(Fetch, 1)>>

\* The declarations a default export can wrap.
NamedFunction(name) == [kind |-> "FunctionDeclaration", id |-> Id(name)]
AnonymousFunction == [kind |-> "FunctionDeclaration", id |-> Null]
NamedClass(name) == [kind |-> "ClassDeclaration", id |-> Id(name)]
Wrapped(callee, arguments) ==
    [kind |-> "CallExpression", callee |-> Id(callee), arguments |-> arguments]

ExportShapes ==
    {NamedFunction("App"), NamedFunction("Users"), AnonymousFunction,
     Id("App"), Id("Users"), NamedClass("App"), ArrowFunction(<<>>),
     StringLiteral("App"), Member("Lib", "App"),
     Wrapped("memo", <<Id("App")>>), Wrapped("memo", <<>>),
     Wrapped("memo", <<ArrowFunction(<<>>)>>),
     Wrapped("connect", <<StringLiteral("state"), Id("App")>>),
     Wrapped("forwardRef", <<Member("Lib", "App"), Id("Users")>>),
     Wrapped("memo", <<Id("Users"), Id("App")>>)}

\* The elements an array pattern can hold: identifiers, a hole, a nested
\* pattern.
PatternElements ==
    {Id("count"), Id("setCount"), Id("extra"), Null,
     [kind |-> "ObjectPattern", properties |-> <<>>]}

\* The sequences over S of length at most n.
SeqsUpTo(S, n) == UNION {[1..k -> S] : k \in 0..n}

\* A pattern binds each identifier once.
BindsOnce(els) ==
    \A j, k \in 1..Len(els) :
        (j # k /\ els[j].kind = "Identifier" /\ els[k].kind = "Identifier")
            => els[j].name # els[k].name

\* const [els] = init
VarPattern(els, init) ==
    [kind |-> "VariableDeclarator", parent |-> 0,
     id |-> [kind |-> "ArrayPattern", elements |-> els], init |-> init]

CallOf(callee) ==
    [kind |-> "CallExpression", callee |-> callee, arg0 |-> Undefined,
     arg1 |-> Undefined]

StateInits ==
    {CallOf(Id("useState")), CallOf(Member("React", "useState")),
     CallOf(Member("Preact", "useState")), CallOf(Id("useReducer")),
     CallOf(Member("React", "useReducer")), Other}

(***************************************************************************)
(* Bounds of the families.                                                 *)
(***************************************************************************)
MaxCoreNodes == 2
MaxHandlerNodes == 4
MaxScopeNodes == 4
MaxNetworkNodes == 3
MaxEffectNodes == 4
MaxPatternLen == 3
MaxExportNodes == 2

CoreLabels == {FunctionDecl("App", <<>>), StatePair, Div, Fetch}

HandlerLabels ==
    {FunctionDecl("App", <<>>), VarFunction("App", <<>>),
     FunctionDecl("addTodo", <<>>), VarFunction("addTodo", <<>>),
     StatePair, SetterCall, Div}

ScopeLabels ==
    {FunctionDecl("App", <<>>), VarFunction("App", <<>>),
     FunctionDecl("Helper", <<>>), VarOther("row"), StatePair, Div, MapCall}

NetworkLabels ==
    {FunctionDecl("App", <<>>), VarFunction("App", <<>>),
     VarFunction("onSubmit", <<>>), Effect, Fetch, AxiosPost, Div}

EffectLabels ==
    {FunctionDecl("App", <<>>), VarFunction("App", <<>>),
     VarFunction("onSubmit", <<>>), Effect, ReactEffect, Fetch, Div}

\* The whole program, started from either entry point.
Init ==
    InitWith({"cli", "script"}, {<<>>, <<FilePath>>},
             {Unreadable, Unparsable}
                 \cup {Parsed(ExportDefault(Id("App")), t) :
                          t \in TreesUpTo(CoreLabels, MaxCoreNodes)},
             Disks)
Spec == Init /\ [][Next]_vars

\* analyzeComponent called on files with handlers and setter calls.
InitHandlers ==
    InitWith({"api"}, {<<>>},
             {Unreadable, Unparsable}
                 \cup {Parsed(ExportDefault(Id("App")), t) :
                          t \in TreesUpTo(HandlerLabels, MaxHandlerNodes)},
             {NoDisk})
SpecHandlers == InitHandlers /\ [][NextAnalyze]_vars

\* analyzeComponent called on files with markup and state inside and
\* outside the component, with and without a default export.
InitScope ==
    InitWith({"api"}, {<<>>},
             {Unreadable, Unparsable}
                 \cup {Parsed(e, t) :
                          e \in {NoExport, ExportDefault(Id("App"))},
                          t \in TreesUpTo(ScopeLabels, MaxScopeNodes)},
             {NoDisk})
SpecScope == InitScope /\ [][NextAnalyze]_vars

\* analyzeComponent called on files with network calls inside and outside
\* effect callbacks.
InitNetwork ==
    InitWith({"api"}, {<<>>},
             {Unreadable, Unparsable}
                 \cup {Parsed(ExportDefault(Id("App")), t) :
                          t \in TreesUpTo(NetworkLabels, MaxNetworkNodes)
                                    \cup {SubmitScenario}},
             {NoDisk})
SpecNetwork == InitNetwork /\ [][NextAnalyze]_vars

\* analyzeComponent called on files with every shape of default export.
InitExport ==
    InitWith({"api"}, {<<>>},
             {Unreadable, Unparsable}
                 \cup {Parsed(e, t) :
                          e \in {NoExport} \cup {ExportDefault(d) : d \in ExportShapes},
                          t \in TreesUpTo(CoreLabels, MaxExportNodes)},
             {NoDisk})
SpecExport == InitExport /\ [][NextAnalyze]_vars

\* analyzeComponent called on a component whose body holds one destructuring
\* declaration, followed by markup and a call of the second name.
InitState ==
    InitWith({"api"}, {<<>>},
             {Unreadable, Unparsable}
                 \cup {Parsed(ExportDefault(Id("App")),
                              <<c, At(VarPattern(els, init), 1), At(Div, 1),
                                At(Call(Id("setCount"), Undefined, Undefined), 1)>>) :
                          c \in {FunctionDecl("App", <<>>), VarFunction("App", <<>>)},
                          els \in {e \in SeqsUpTo(PatternElements, MaxPatternLen) :
                                      BindsOnce(e)},
                          init \in StateInits},
             {NoDisk})
SpecState == InitState /\ [][NextAnalyze]_vars

\* analyzeComponent called on files with effects, nested and in handlers.
InitEffects ==
    InitWith({"api"}, {<<>>},
             {Unreadable, Unparsable}
                 \cup {Parsed(ExportDefault(Id("App")), t) :
                          t \in TreesUpTo(EffectLabels, MaxEffectNodes)},
             {NoDisk})
SpecEffects == InitEffects /\ [][NextAnalyze]_vars

(***************************************************************************)
(* Markup: the attributes and children an element can carry.               *)
(***************************************************************************)
NumericLiteral(n) == [kind |-> "NumericLiteral", value |-> n]
BooleanLiteral(b) == [kind |-> "BooleanLiteral", value |-> b]
TemplateLiteral == [kind |-> "TemplateLiteral"]
\* e as T
TSAsExpression(e) == [kind |-> "TSAsExpression", expression |-> e]
\* {e}
JSXExpressionContainer(e) == [kind |-> "JSXExpressionContainer", expression |-> e]
\* name=value; a valueless attribute has value null
JSXAttribute(name, value) ==
    [kind |-> "JSXAttribute", name |-> [kind |-> "JSXIdentifier", name |-> name],
     value |-> value]
\* {...rest}
JSXSpreadAttribute == [kind |-> "JSXSpreadAttribute", argument |-> Id("rest")]
\* xlink:href="#top"
JSXNamespacedAttribute ==
    [kind |-> "JSXAttribute",
     name |-> [kind |-> "JSXNamespacedName",
               namespace |-> [kind |-> "JSXIdentifier", name |-> "xlink"],
               name |-> [kind |-> "JSXIdentifier", name |-> "href"]],
     value |-> StringLiteral("#top")]
\* An element written as an attribute value: name=<i/>
JSXElementValue == [kind |-> "JSXElement"]

\* The expressions written between braces.
AttributeExpressions ==
    {Id("handleSave"), StringLiteral("save"), NumericLiteral(5),
     BooleanLiteral(FALSE), TemplateLiteral, ArrowFunction(<<>>),
     TSAsExpression(Id("handleSave")), TSAsExpression(NumericLiteral(5))}

AttributeValues ==
    {Null, StringLiteral(" Save-Btn "), JSXElementValue}
        \cup {JSXExpressionContainer(e) : e \in AttributeExpressions}

AttributeNames == {"data-testid", "onClick"}

Attributes ==
    {JSXAttribute(n, v) : n \in AttributeNames, v \in AttributeValues}
        \cup {JSXSpreadAttribute, JSXNamespacedAttribute}

\* function App() { const [input, setInput] = useState(); <element/>;
\*                  setInput("") }
ComponentWith(element) ==
    <<FunctionDecl("App", <<>>), At(StatePair, 1), At(element, 1),
      At(SetterCall, 1)>>

MaxAttributes == 2

\* analyzeComponent called on a component holding one element, over the
\* attribute lists of that element.
InitAttributes ==
    InitWith({"api"}, {<<>>},
             {Unreadable, Unparsable}
                 \cup {Parsed(ExportDefault(Id("App")),
                              ComponentWith(JSX("button", attrs, <<>>))) :
                          attrs \in SeqsUpTo(Attributes, MaxAttributes)},
             {NoDisk})
SpecAttributes == InitAttributes /\ [][NextAnalyze]_vars

\* The tags and the role and type attributes guessRole looks at.
RoleTags == {"button", "Button", "input", "a", "img", "div"}

RoleAttributes ==
    {JSXAttribute("role", StringLiteral(r)) :
        r \in {"button", "textbox", "link", "img"}}
    \cup {JSXAttribute("type", v) :
             v \in {StringLiteral("text"), StringLiteral("Text"),
                    StringLiteral("password"), StringLiteral(""), Null,
                    JSXExpressionContainer(BooleanLiteral(FALSE))}}

MaxRoleAttributes == 2

\* analyzeComponent called on a component holding one element, over tags and
\* role and type attributes.
InitRoles ==
    InitWith({"api"}, {<<>>},
             {Unreadable, Unparsable}
                 \cup {Parsed(ExportDefault(Id("App")),
                              ComponentWith(JSX(tag, attrs, <<>>))) :
                          tag \in RoleTags,
                          attrs \in SeqsUpTo(RoleAttributes, MaxRoleAttributes)},
             {NoDisk})
SpecRoles == InitRoles /\ [][NextAnalyze]_vars

\* Literal text between the tags of an element, as the parser keeps it
\* (line breaks and indentation included).
JSXText(value) == [kind |-> "JSXText", value |-> value]
\* A nested element, as a child.
JSXChildElement == [kind |-> "JSXElement"]

\* The children an element can hold: text, text made of white space only,
\* an expression, a nested element.
Children ==
    {JSXText(" Save "), JSXText("Add item"), JSXText("\n  "),
     JSXExpressionContainer(Id("label")), JSXChildElement}

\* The parser joins literal text into one child: no two text children are
\* neighbours.
NoAdjacentText(children) ==
    \A k \in 1..(Len(children) - 1) :
        ~(children[k].kind = "JSXText" /\ children[k + 1].kind = "JSXText")

MaxChildren == 3

\* analyzeComponent called on a component holding one element, over the
\* children of that element.
InitText ==
    InitWith({"api"}, {<<>>},
             {Unreadable, Unparsable}
                 \cup {Parsed(ExportDefault(Id("App")),
                              ComponentWith(JSX("p", <<>>, children))) :
                          children \in {c \in SeqsUpTo(Children, MaxChildren) :
                                           NoAdjacentText(c)}},
             {NoDisk})
SpecText == InitText /\ [][NextAnalyze]_vars

(***************************************************************************)
(* Shapes no rule of the extractor recognises.                             *)
(***************************************************************************)
\* () => expression
ExpressionArrow ==
    [kind |-> "ArrowFunctionExpression", params |-> <<>>, expression |-> TRUE]
\* ...rest, as a parameter or as an element
RestElement == [kind |-> "RestElement", argument |-> Id("rest")]
\* const [, setInput] = useState()
HolePattern == VarPatternCall(<<Null, Id("setInput")>>, Id("useState"))
\* const [] = React.useState()
EmptyPattern == VarPatternCall(<<>>, Member("React", "useState"))
\* <UI.Icon {...rest} xlink:href="#top"> </UI.Icon>
SpreadElement ==
    [kind |-> "JSXElement", parent |-> 0,
     name |-> [kind |-> "JSXMemberExpression",
               object |-> [kind |-> "JSXIdentifier", name |-> "UI"],
               property |-> [kind |-> "JSXIdentifier", name |-> "Icon"]],
     attributes |-> <<JSXSpreadAttribute, JSXNamespacedAttribute>>,
     children |-> <<[kind |-> "JSXExpressionContainer"]>>]
\* useEffect(handler, deps)
EffectOfIdentifier == Call(Id("useEffect"), Id("handler"), Id("deps"))
\* React.useEffect()
EffectOfNothing == Call(Member("React", "useEffect"), Undefined, Undefined)
\* useEffect(() => <the expression below it>, [, ...rest])
EffectOfExpression ==
    Call(Id("useEffect"), ExpressionArrow, ArrayExpression(<<Null, RestElement>>))
\* fetch()
FetchNothing == Call(Id("fetch"), Undefined, Undefined)
\* axios.get(url)
AxiosGetIdentifier == Call(Member("axios", "get"), Id("url"), Undefined)

ShapeLabels ==
    {FunctionDecl("App", <<RestElement>>), HolePattern, EmptyPattern,
     SpreadElement, EffectOfIdentifier, EffectOfNothing, EffectOfExpression,
     FetchNothing, AxiosGetIdentifier, SetterCall}

MaxShapeNodes == 2

\* analyzeComponent called on files built from the shapes above.
InitShapes ==
    InitWith({"api"}, {<<>>},
             {Unreadable, Unparsable}
                 \cup {Parsed(e, t) :
                          e \in {NoExport, ExportDefault(Id("App"))},
                          t \in TreesUpTo(ShapeLabels, MaxShapeNodes)},
             {NoDisk})
SpecShapes == InitShapes /\ [][NextAnalyze]_vars

(***************************************************************************)
(* Parameter lists.                                                        *)
(***************************************************************************)
\* key: value inside an object pattern
ObjectProperty(key, value) ==
    [kind |-> "ObjectProperty", key |-> Id(key), value |-> Id(value)]
\* { title, onSave: save, ...rest }
PropsPattern ==
    [kind |-> "ObjectPattern",
     properties |-> <<ObjectProperty("title", "title"),
                      ObjectProperty("onSave", "save"), RestElement>>]
\* props = {}
AssignmentPattern == [kind |-> "AssignmentPattern", left |-> Id("props")]

\* The parameter lists of the component.
ParamShapes ==
    {<<>>, <<PropsPattern>>, <<Id("props")>>, <<Id("props"), Id("ref")>>,
     <<AssignmentPattern>>}

PropsLabels ==
    {FunctionDecl("App", ps) : ps \in ParamShapes}
        \cup {VarFunction("App", ps) : ps \in ParamShapes}
        \cup {FunctionDecl("Helper", <<Id("options")>>),
              VarFunction("onSave", <<Id("event")>>), StatePair, Div, SetterCall}

MaxPropsNodes == 3

\* analyzeComponent called on files whose functions take parameters.
InitProps ==
    InitWith({"api"}, {<<>>},
             {Unreadable, Unparsable}
                 \cup {Parsed(ExportDefault(Id("App")), t) :
                          t \in TreesUpTo(PropsLabels, MaxPropsNodes)},
             {NoDisk})
SpecProps == InitProps /\ [][NextAnalyze]_vars

(***************************************************************************)
(* Repeated invocations.                                                   *)
(***************************************************************************)
\* <button onClick={handleSave}> Save </button>
SaveButton ==
    JSX("button",
        <<JSXAttribute("onClick", JSXExpressionContainer(Id("handleSave")))>>,
        <<JSXText(" Save ")>>)

\* The files analysed one after the other.
RepeatSources ==
    {Unreadable,
     Parsed(ExportDefault(Id("App")), ComponentWith(SaveButton)),
     Parsed(ExportDefault(Id("App")), ComponentWith(Div)),
     Parsed(ExportDefault(Id("App")), SubmitScenario)}

MaxCalls == 2

\* The caller invokes analyzeComponent again, on the same file or another,
\* in the same process: the invocation that ended is logged with what it
\* returned or threw. Nothing of the module outlives an invocation; the
\* accumulators are locals the next invocation allocates anew.
Invoke ==
    /\ entry = "api"
    /\ pc \in {"returned", "raised"}
    /\ Len(ended) < MaxCalls
    /\ ended' = Append(ended, [source |-> source, result |-> result,
                               error |-> error])
    /\ source' \in RepeatSources
    /\ pc' = "read"
    /\ ast' = NoAst
    /\ pos' = 0
    /\ result' = Undefined
    /\ error' = Undefined
    /\ UNCHANGED <<entry, argv, accVars, cliVars>>

NextRepeat == NextAnalyze \/ Invoke

\* analyzeComponent called again and again in one process.
InitRepeat == InitWith({"api"}, {<<>>}, RepeatSources, {NoDisk})
SpecRepeat == InitRepeat /\ [][NextRepeat]_vars

(***************************************************************************)
(* Repeated runs of the entry points.                                      *)
(***************************************************************************)
\* The component file as it stands at the start of a run: the user may have
\* edited it, or removed it, since the run before.
RunSources ==
    {Unreadable,
     Parsed(ExportDefault(Id("App")), <<FunctionDecl("App", <<>>), At(Div, 1)>>),
     Parsed(ExportDefault(Id("App")), ComponentWith(Div))}

MaxRuns == 2

\* The process has exited and an entry point is started again with the same
\* argument: a new process, whose only inheritance is the disk. The run that
\* ended is logged with the disk it left.
RunAgain ==
    /\ entry \in {"cli", "script"}
    /\ pc = "exited"
    /\ Len(ended) < MaxRuns - 1
    /\ ended' = Append(ended, [source |-> source, result |-> result,
                               error |-> error, disk |-> disk])
    /\ entry' \in {"cli", "script"}
    /\ source' \in RunSources
    /\ pc' = "main"
    /\ ast' = NoAst
    /\ pos' = 0
    /\ SetAcc(freshAccumulators("Anonymous"))
    /\ result' = Undefined
    /\ error' = Undefined
    /\ analyzed' = Undefined
    /\ stderr' = <<>>
    /\ exitCode' = None
    /\ UNCHANGED <<argv, disk>>

NextRuns == Next \/ RunAgain

\* The entry points run again and again on the same component path.
InitRuns ==
    InitWith({"cli", "script"}, {<<>>, <<FilePath>>}, RunSources, Disks)
SpecRuns == InitRuns /\ [][NextRuns]_vars

(***************************************************************************)
(* Properties of analyzeComponent and of the entry points.                 *)
(***************************************************************************)

\* The scope filter as the specification defines it: node i stands, at any
\* depth, inside a function declaration named `name` or inside a variable
\* binding named `name` whose initializer is a function.
LexicallyInComponent(nodes, i, name) ==
    \E k \in 1..Len(AncestorSeq(nodes, i)) :
        LET a == nodes[AncestorSeq(nodes, i)[k]]
        IN  \/ a.kind = "FunctionDeclaration" /\ isIdentifierNamed(a.id, name)
            \/ /\ a.kind = "VariableDeclarator"
               /\ isIdentifierNamed(a.id, name)
               /\ isFunctionExpression(a.init)

RECURSIVE SortedSeq(_)
\* The members of a set of numbers, in increasing order.
SortedSeq(S) ==
    IF S = {} THEN <<>>
    ELSE LET m == CHOOSE x \in S : \A y \in S : x <= y
         IN  <<m>> \o SortedSeq(S \ {m})

RECURSIVE Flatten(_)
\* The concatenation of a sequence of sequences.
Flatten(ss) == IF ss = <<>> THEN <<>> ELSE Head(ss) \o Flatten(Tail(ss))

\* The tree without node r and everything under it.
RemoveSubtree(nodes, r) ==
    LET gone == {r} \cup Descendants(nodes, r)
        kept == SortedSeq((1..Len(nodes)) \ gone)
        shift(q) == Cardinality({g \in gone : g < q})
    IN  [k \in 1..Len(kept) |->
            [nodes[kept[k]] EXCEPT !.parent = @ - shift(@)]]

\* Whether `seq` holds x.
Holds(seq, x) == \E k \in 1..Len(seq) : seq[k] = x

\* A State Pair with setter s was recorded before the traversal reached node i.
RecordedBefore(nodes, i, name, s) ==
    \E j \in 1..(i - 1) :
        /\ nodes[j].kind = "VariableDeclarator"
        /\ isInsideComponent(nodes, AncestorSeq(nodes, j), name)
        /\ \E k \in 1..Len(statePairs(nodes[j])) : statePairs(nodes[j])[k].setter = s

\* C1: for every call lexically in the component whose callee is a bare
\* identifier equal to an already recorded state setter and whose nearest
\* enclosing function has a name, the returned eventToSetterMap has an entry
\* for that function name and the entry contains the setter name.
C1_HandlerSettersMapped ==
    pc = "returned" =>
        \A i \in 1..Len(ast.nodes) :
            LET n == ast.nodes[i]
                f == getFunctionParent(ast.nodes, AncestorSeq(ast.nodes, i))
            IN  (/\ n.kind = "CallExpression"
                 /\ LexicallyInComponent(ast.nodes, i, result.name)
                 /\ n.callee.kind = "Identifier"
                 /\ RecordedBefore(ast.nodes, i, result.name, n.callee.name)
                 /\ f # 0
                 /\ handlerName(ast.nodes[f]) # "")
                => /\ handlerName(ast.nodes[f]) \in DOMAIN result.eventToSetterMap
                   /\ Holds(result.eventToSetterMap[handlerName(ast.nodes[f])],
                            n.callee.name)

\* The markup nodes of the file, in pre-order.
Markup(nodes) ==
    SortedSeq({i \in 1..Len(nodes) : nodes[i].kind = "JSXElement"})

\* The markup nodes lexically inside the component, in pre-order.
MarkupInComponent(nodes, name) ==
    SortedSeq({i \in 1..Len(nodes) :
                  /\ nodes[i].kind = "JSXElement"
                  /\ LexicallyInComponent(nodes, i, name)})

\* The file declares the component: a function declaration of that name, or a
\* variable of that name bound to a function.
ComponentDeclared(nodes, name) ==
    \E i \in 1..Len(nodes) :
        \/ nodes[i].kind = "FunctionDeclaration" /\ isIdentifierNamed(nodes[i].id, name)
        \/ /\ nodes[i].kind = "VariableDeclarator"
           /\ isIdentifierNamed(nodes[i].id, name)
           /\ isFunctionExpression(nodes[i].init)

\* C2: for a resolved component, `elements` holds exactly one Element Record
\* for every markup node lexically contained in the component at any depth,
\* in pre-order, repeated markup kept.
C2_EveryMarkupNodeRecorded ==
    (pc = "returned" /\ ComponentDeclared(ast.nodes, result.name)) =>
        LET idx == MarkupInComponent(ast.nodes, result.name)
        IN  result.elements = [k \in 1..Len(idx) |-> elementRecord(ast.nodes[idx[k]])]

\* Node i is a function at the top level of the file: a function
\* declaration, or a variable bound to a function.
TopLevelFunction(nodes, i) ==
    /\ nodes[i].parent = 0
    /\ \/ nodes[i].kind = "FunctionDeclaration"
       \/ nodes[i].kind = "VariableDeclarator" /\ isFunctionExpression(nodes[i].init)

\* C3: a second function of the file that is not the component contributes
\* nothing, whatever it contains: the Element Records and State Pairs
\* returned are those returned for the file without that function.
C3_SecondFunctionContributesNothing ==
    pc = "returned" =>
        \A c, r \in 1..Len(ast.nodes) :
            (/\ TopLevelFunction(ast.nodes, c)
             /\ isIdentifierNamed(ast.nodes[c].id, result.name)
             /\ TopLevelFunction(ast.nodes, r)
             /\ ~isIdentifierNamed(ast.nodes[r].id, result.name))
            => LET without == analyzeTree([ast EXCEPT
                                  !.nodes = RemoveSubtree(ast.nodes, r)])
               IN  /\ result.elements = without.elements
                   /\ result.states = without.states

\* The name the specification's locator rules give a default export.
ExpectedName(exportDefault) ==
    IF exportDefault.kind # "ExportDefaultDeclaration" THEN "Anonymous"
    ELSE LET d == exportDefault.declaration
         IN  IF d.kind = "FunctionDeclaration" /\ d.id.kind = "Identifier"
             THEN d.id.name
             ELSE IF d.kind = "Identifier" THEN d.name
             ELSE IF d.kind = "CallExpression"
             THEN IF Len(d.arguments) >= 1 /\ d.arguments[1].kind = "Identifier"
                  THEN d.arguments[1].name
                  ELSE "Anonymous"
             ELSE "Anonymous"

\* C4: when the default export resolves to no name, the returned name is
\* "Anonymous" and the whole file is in scope: every markup node and every
\* qualifying state declaration of the file is recorded.
C4_AnonymousScopesWholeFile ==
    (pc = "returned" /\ ExpectedName(ast.exportDefault) = "Anonymous") =>
        LET idx == Markup(ast.nodes)
            decls == SortedSeq({i \in 1..Len(ast.nodes) :
                                   ast.nodes[i].kind = "VariableDeclarator"})
        IN  /\ result.name = "Anonymous"
            /\ result.elements =
                   [k \in 1..Len(idx) |-> elementRecord(ast.nodes[idx[k]])]
            /\ result.states =
                   Flatten([k \in 1..Len(decls) |-> statePairs(ast.nodes[decls[k]])])

\* C5: the component name is chosen from the default export by precedence:
\* the declared name of a named function declaration, else the name of a
\* bare identifier, else the name of the first argument of a call when that
\* argument is a bare identifier, else "Anonymous"; no shape raises.
C5_NamePrecedence ==
    /\ pc \in {"pass2", "returned"} => componentName = ExpectedName(ast.exportDefault)
    /\ pc = "returned" => result.name = ExpectedName(ast.exportDefault)
    /\ pc = "raised" => source.status # "ok"

\* A file whose default export is a call with two arguments, the first an
\* identifier, was analysed and took the first argument's name.
C5_Witness ==
    /\ pc = "returned"
    /\ ast.exportDefault.kind = "ExportDefaultDeclaration"
    /\ ast.exportDefault.declaration.kind = "CallExpression"
    /\ Len(ast.exportDefault.declaration.arguments) = 2
    /\ ast.exportDefault.declaration.arguments[1].kind = "Identifier"
    /\ result.name = ast.exportDefault.declaration.arguments[1].name
    /\ result.name # ast.exportDefault.declaration.arguments[2].name
    /\ Len(ast.nodes) > 0

\* The State Pairs the specification's rule gives declarator n: one when it
\* destructures exactly two identifiers from a call of useState, bare or
\* namespace-qualified, else none.
ExpectedStatePairs(n) ==
    IF /\ n.kind = "VariableDeclarator"
       /\ n.id.kind = "ArrayPattern"
       /\ Len(n.id.elements) = 2
       /\ n.id.elements[1].kind = "Identifier"
       /\ n.id.elements[2].kind = "Identifier"
       /\ n.init.kind = "CallExpression"
       /\ \/ isIdentifierNamed(n.init.callee, "useState")
          \/ /\ n.init.callee.kind = "MemberExpression"
             /\ n.init.callee.object.kind = "Identifier"
             /\ isIdentifierNamed(n.init.callee.property, "useState")
    THEN <<[stateVar |-> n.id.elements[1].name, setter |-> n.id.elements[2].name]>>
    ELSE <<>>

\* C6: a State Pair is produced for an in-scope declaration if and only if it
\* destructures exactly two identifiers from an array pattern initialized by
\* a call of useState (bare or namespace-qualified), the names taken in
\* positional order; any other arity or call shape produces none.
C6_StatePairIffTwoIdentifiers ==
    pc = "returned" =>
        LET decls == SortedSeq({i \in 1..Len(ast.nodes) :
                                   /\ ast.nodes[i].kind = "VariableDeclarator"
                                   /\ LexicallyInComponent(ast.nodes, i, result.name)})
        IN  result.states =
                Flatten([k \in 1..Len(decls) |-> ExpectedStatePairs(ast.nodes[decls[k]])])

\* A call is a network call: fetch(...) or axios.<method>(...).
IsNetworkCall(call) == isFetchCall(call) \/ isAxiosCall(call)

\* A call registers a side effect: useEffect, bare or namespace-qualified.
IsEffectRegistration(call) ==
    \/ isIdentifierNamed(call.callee, "useEffect")
    \/ /\ call.callee.kind = "MemberExpression"
       /\ call.callee.object.kind = "Identifier"
       /\ isIdentifierNamed(call.callee.property, "useEffect")

\* The effect registrations of the file that pass a callback.
RegistrationsWithCallback(nodes) ==
    {a \in 1..Len(nodes) :
        /\ nodes[a].kind = "CallExpression"
        /\ IsEffectRegistration(nodes[a])
        /\ isFunctionExpression(nodes[a].arg0)}

\* Node i stands in the callback body of one of the registrations R.
InEffectBody(nodes, i, R) ==
    \E k \in 1..Len(AncestorSeq(nodes, i)) : AncestorSeq(nodes, i)[k] \in R

\* The network calls of the file that stand in no effect callback body.
CallsOutsideEffects(nodes) ==
    {i \in 1..Len(nodes) :
        /\ nodes[i].kind = "CallExpression"
        /\ IsNetworkCall(nodes[i])
        /\ ~InEffectBody(nodes, i, RegistrationsWithCallback(nodes))}

\* The network calls of the file that stand in an effect callback body.
CallsInsideEffects(nodes) ==
    {i \in 1..Len(nodes) :
        /\ nodes[i].kind = "CallExpression"
        /\ IsNetworkCall(nodes[i])
        /\ InEffectBody(nodes, i, RegistrationsWithCallback(nodes))}

\* C7: a fetch or axios call that stands in no effect callback body never
\* adds an entry to apis and never sets usesFetch or usesAxios: the three are
\* what they are for the file without that call, and they are empty and
\* false when no network call stands in an effect callback body.
C7_CallsOutsideEffectsIgnored ==
    pc = "returned" =>
        /\ \A i \in CallsOutsideEffects(ast.nodes) :
               LET without == analyzeTree([ast EXCEPT
                                  !.nodes = RemoveSubtree(ast.nodes, i)])
               IN  /\ result.apis = without.apis
                   /\ result.usesFetch = without.usesFetch
                   /\ result.usesAxios = without.usesAxios
        /\ CallsInsideEffects(ast.nodes) = {}
               => result.apis = <<>> /\ ~result.usesFetch /\ ~result.usesAxios

\* A component with the same fetch call in an effect, in a submit handler
\* and in its body was analysed: apis holds the one record of the effect's
\* call.
C7_Witness ==
    /\ pc = "returned"
    /\ \E i \in CallsInsideEffects(ast.nodes) :
           /\ Cardinality({j \in CallsOutsideEffects(ast.nodes) :
                              /\ ast.nodes[j].callee = ast.nodes[i].callee
                              /\ ast.nodes[j].arg0 = ast.nodes[i].arg0}) >= 2
           /\ result.apis = apiRecords(ast.nodes[i])
    /\ result.usesFetch
    /\ ~result.usesAxios

\* The Network Call record the specification gives a call: for
\* axios.<method>(...) the method and the url, for fetch(...) the url; the
\* url is the first argument when it is a string literal, else "unknown".
ExpectedApiRecord(call) ==
    LET url == IF call.arg0.kind = "StringLiteral" THEN call.arg0.value
               ELSE "unknown"
    IN  IF isAxiosCall(call)
        THEN [type |-> "axios", method |-> call.callee.property.name, url |-> url]
        ELSE [type |-> "fetch", url |-> url]

\* On every effect registration of the file the scope filter of the code
\* answers as the specification's scope does.
ScopeUndisputed(nodes, name) ==
    \A i \in 1..Len(nodes) :
        (nodes[i].kind = "CallExpression" /\ IsEffectRegistration(nodes[i]))
            => (LexicallyInComponent(nodes, i, name)
                    <=> isInsideComponent(nodes, AncestorSeq(nodes, i), name))

\* C8: for each network call inside the callback body of an in-scope effect
\* registration exactly one record is appended to apis, in traversal order,
\* with the kind, method and url of the call; no call is recorded twice.
\* Stated for the files on which the scope of every registration is
\* undisputed.
C8_OneRecordPerEffectCall ==
    (pc = "returned" /\ ScopeUndisputed(ast.nodes, result.name)) =>
        LET calls == SortedSeq({i \in CallsInsideEffects(ast.nodes) :
                        InEffectBody(ast.nodes, i,
                            {a \in RegistrationsWithCallback(ast.nodes) :
                                LexicallyInComponent(ast.nodes, a, result.name)})})
        IN  result.apis = [k \in 1..Len(calls) |-> ExpectedApiRecord(ast.nodes[calls[k]])]

\* The effect registrations lexically inside the component, in pre-order.
EffectRegistrations(nodes, name) ==
    SortedSeq({i \in 1..Len(nodes) :
                  /\ nodes[i].kind = "CallExpression"
                  /\ IsEffectRegistration(nodes[i])
                  /\ LexicallyInComponent(nodes, i, name)})

\* The names a registration contributes: the identifier elements of its
\* second argument when that is a literal array, in order.
ExpectedDeps(call) ==
    IF call.arg1.kind = "ArrayExpression"
    THEN LET idx == SortedSeq({k \in 1..Len(call.arg1.elements) :
                                  call.arg1.elements[k].kind = "Identifier"})
         IN  [k \in 1..Len(idx) |-> call.arg1.elements[idx[k]].name]
    ELSE <<>>

\* C9: for every in-scope effect registration hasEffects is true and the
\* registration contributes to effectDependencies exactly the names of the
\* identifier elements of its literal-array second argument, in order, and
\* nothing else.
C9_EveryRegistrationCounted ==
    pc = "returned" =>
        LET regs == EffectRegistrations(ast.nodes, result.name)
        IN  /\ regs # <<>> => result.effects
            /\ result.effectDeps =
                   Flatten([k \in 1..Len(regs) |-> ExpectedDeps(ast.nodes[regs[k]])])

\* A test file produced by this run (not one written by hand before it).
Produced(d) == d.testFile # None /\ d.testFile # Some(OldContent)

\* C10: invoked with one path argument, if the analyzer raises the entry
\* point prints a diagnostic and exits non-zero without producing a test
\* file, and only on analyzer success is the generator reached.
C10_ErrorExitsNonZero ==
    (Len(argv) = 1 /\ error # Undefined) =>
        /\ pc \notin {"generate", "generateThrew"}
        /\ ~Produced(disk)
        /\ pc = "exited" => exitCode = Some(1) /\ stderr # <<>>

\* What generateTestFile writes when it is given no analysis.
FallbackContent == testContent(basenameNoExt(FilePath), fallbackAnalyzed(basenameNoExt(FilePath)))

\* C10 as the code has it: scripts/run-generator.ts prints a diagnostic and
\* exits 1 on an analyzer error without reaching the generator;
\* cli/generate-test-file.ts swallows the error and hands the generator no
\* analysis, so that the only file it can produce is the fallback one, it
\* prints nothing and exits zero unless the generator itself throws; on
\* analyzer success both hand the result to the generator and exit zero
\* unless the generator throws.
C10_ErrorHandlingPerEntryPoint ==
    /\ (entry = "script" /\ error # Undefined) =>
           /\ pc \notin {"generate", "generateThrew"}
           /\ ~Produced(disk)
           /\ pc = "exited" => exitCode = Some(1) /\ stderr # <<>>
    /\ (entry = "cli" /\ error # Undefined) =>
           /\ analyzed = Undefined
           /\ Produced(disk) => disk.testFile = Some(FallbackContent)
           /\ pc = "exited" =>
                  \/ exitCode = Some(0) /\ stderr = <<>>
                  \/ exitCode = Some(1) /\ ~disk.writable /\ ~Produced(disk)
    /\ (Len(argv) = 1 /\ error = Undefined /\ pc \in {"generate", "generateThrew", "exited"}) =>
           /\ analyzed = result
           /\ result # Undefined
           /\ pc = "exited" =>
                  \/ exitCode = Some(0)
                  \/ exitCode = Some(1) /\ ~disk.writable /\ stderr # <<>>
    /\ Len(argv) = 0 => pc \in {"main", "exited"} /\ ~Produced(disk)

\* The command-line entry point was run on a file the analyzer cannot read
\* or parse, wrote the fallback test file and exited zero in silence.
C10_Witness ==
    /\ entry = "cli"
    /\ Len(argv) = 1
    /\ error # Undefined
    /\ pc = "exited"
    /\ exitCode = Some(0)
    /\ stderr = <<>>
    /\ disk.testFile = Some(FallbackContent)

\* s.includes(sub)
Includes(s, sub) ==
    \E k \in 1..(Len(s) - Len(sub) + 1) : SubSeq(s, k, k + Len(sub) - 1) = sub

\* The fields of an Analyzed Component.
AnalyzedFields ==
    {"name", "elements", "states", "effects", "props", "usesFetch",
     "usesAxios", "apis", "effectDeps", "eventToSetterMap"}

\* C11: when the file cannot be read or does not parse, analyzeComponent
\* raises one error whose message names the file path and the underlying
\* cause and returns nothing; in every other case it returns an Analyzed
\* Component in which every field is present, and raises nothing.
C11_ErrorOrFullResult ==
    /\ source.status # "ok" => result = Undefined /\ pc # "returned"
    /\ pc = "raised" => source.status # "ok" /\ error # Undefined
    /\ error # Undefined =>
           /\ DOMAIN error = {"message"}
           /\ Includes(error.message, FilePath)
           /\ Includes(error.message, source.cause)
           /\ result = Undefined
    /\ pc = "returned" => result # Undefined
    /\ result # Undefined =>
           /\ source.status = "ok"
           /\ error = Undefined
           /\ DOMAIN result = AnalyzedFields

\* A file that does not parse was analysed: the invocation ended with the
\* parse error and no result.
C11_Witness ==
    /\ source.status = "unparsable"
    /\ pc = "raised"
    /\ error.message = "Failed to parse \"src/App.tsx\": Unexpected token"
    /\ result = Undefined

\* C12: once the source has parsed, no input shape makes the extractor
\* raise: on holes in array patterns, spread attributes, namespaced attribute
\* names, non-function effect arguments, expression-bodied effect callbacks
\* and the like, every step of the analysis can be taken, no error is raised
\* and the analysis ends with a result.
C12_ParsedNeverRaises ==
    source.status = "ok" =>
        /\ pc # "raised"
        /\ error = Undefined
        /\ pc \in {"read", "parse", "pass1", "pass2"} => ENABLED NextAnalyze
        /\ pc \notin {"read", "parse", "pass1", "pass2"} =>
               pc = "returned" /\ DOMAIN result = AnalyzedFields

\* A component holding an element with a spread and a namespaced attribute
\* was analysed to the end: the element is recorded without properties.
C12_Witness ==
    /\ pc = "returned"
    /\ source.status = "ok"
    /\ Len(ast.nodes) = 2
    /\ ast.nodes[2] = At(SpreadElement, 1)
    /\ Len(result.elements) = 1
    /\ result.elements[1].type = "UI.Icon"
    /\ result.elements[1].props = EmptyMap

\* The analysis of a component holding one element has returned.
ElementAnalysed ==
    /\ pc = "returned"
    /\ source.status = "ok"
    /\ Len(ast.nodes) = 4
    /\ ast.nodes = ComponentWith(ast.nodes[3])
    /\ ast.nodes[3].kind = "JSXElement"
    /\ Len(result.elements) = 1

\* The element analysed and its record.
TheElement == ast.nodes[3]
TheRecord == result.elements[1]

\* Attribute attr is written name=..., with a plain name.
IsNamed(attr, name) ==
    /\ attr.kind = "JSXAttribute"
    /\ attr.name.kind = "JSXIdentifier"
    /\ attr.name.name = name

\* The positions of the attributes data-testid="<string literal>".
LiteralTestIds(attrs) ==
    {k \in 1..Len(attrs) :
        IsNamed(attrs[k], "data-testid") /\ attrs[k].value.kind = "StringLiteral"}

\* The largest member of a non-empty set of integers.
Last(S) == CHOOSE k \in S : \A j \in S : j <= k

\* C13: an element that carries data-testid with a string literal value has
\* that literal, character for character, as its stableId; an element
\* without such a literal attribute (no data-testid, a valueless one, or one
\* bound to an expression) has no stableId.
C13_StableIdIsTheLiteral ==
    ElementAnalysed =>
        LET attrs == TheElement.attributes
            lits == LiteralTestIds(attrs)
        IN  IF lits = {} THEN TheRecord.testId = None
            ELSE TheRecord.testId = Some(attrs[Last(lits)].value.value)

\* <button data-testid=" Save-Btn " data-testid={handleSave}/> was analysed:
\* the stableId is the literal, untrimmed.
C13_Witness ==
    /\ ElementAnalysed
    /\ TheElement.attributes =
           <<JSXAttribute("data-testid", StringLiteral(" Save-Btn ")),
             JSXAttribute("data-testid",
                          JSXExpressionContainer(Id("handleSave")))>>
    /\ TheRecord.testId = Some(" Save-Btn ")
    /\ TheRecord.props["data-testid"] = Str("expr:handleSave")

\* The positions of the attributes written name=... in attrs.
Named(attrs, name) == {k \in 1..Len(attrs) : IsNamed(attrs[k], name)}

\* The element's last `name` attribute is the string literal `literal`.
HasLiteral(attrs, name, literal) ==
    /\ Named(attrs, name) # {}
    /\ attrs[Last(Named(attrs, name))].value = StringLiteral(literal)

\* C14 as stated: roleHint is absent or one of button, textbox, link, image,
\* and textbox only goes to elements with no type attribute or type="text".
C14_RoleHintAsStated ==
    ElementAnalysed =>
        /\ TheRecord.roleHint \in
               {None, Some("button"), Some("textbox"), Some("link"), Some("image")}
        /\ TheRecord.roleHint = Some("textbox") =>
               \/ Named(TheElement.attributes, "type") = {}
               \/ HasLiteral(TheElement.attributes, "type", "text")

\* The element's type attribute lets an input be a textbox: there is none,
\* or the last one is a string literal that is empty or spells "text" in any
\* letter case.
TypeIsText(attrs) ==
    \/ Named(attrs, "type") = {}
    \/ LET val == attrs[Last(Named(attrs, "type"))].value
       IN  val.kind = "StringLiteral" /\ toLowerCase(val.value) \in {"", "text"}

\* C14 (amended): roleHint is absent or one of button, textbox, link, img,
\* each derived from the lower-cased tag name or from a literal role
\* attribute; textbox only goes to elements whose type attribute is absent,
\* empty or "text" in any letter case.
C14_RoleHintValues ==
    ElementAnalysed =>
        LET attrs == TheElement.attributes
            tag == toLowerCase(TheElement.name.name)
            hint == TheRecord.roleHint
        IN  /\ hint \in {None, Some("button"), Some("textbox"), Some("link"),
                         Some("img")}
            /\ hint = Some("button") =>
                   tag = "button" \/ HasLiteral(attrs, "role", "button")
            /\ hint = Some("textbox") =>
                   /\ tag = "input" \/ HasLiteral(attrs, "role", "textbox")
                   /\ TypeIsText(attrs)
            /\ hint = Some("link") =>
                   tag = "a" \/ HasLiteral(attrs, "role", "link")
            /\ hint = Some("img") =>
                   tag = "img" \/ HasLiteral(attrs, "role", "img")
            /\ hint = None =>
                   /\ tag \notin {"button", "a", "img"}
                   /\ tag = "input" => ~TypeIsText(attrs)

\* <input type="Text"/> was analysed and is a textbox; so is, in another
\* run, <img/> an img.
C14_Witness ==
    /\ ElementAnalysed
    /\ TheElement.name.name = "input"
    /\ TheElement.attributes = <<JSXAttribute("type", StringLiteral("Text"))>>
    /\ TheRecord.roleHint = Some("textbox")

\* The identifier an attribute value {x} is bound to, if it is one.
PlainIdentifier(val) ==
    IF val.kind = "JSXExpressionContainer" /\ val.expression.kind = "Identifier"
    THEN Some(val.expression.name)
    ELSE None

\* The identifier an attribute value {x} or {x as T} is bound to.
CastIdentifier(val) ==
    IF PlainIdentifier(val) # None THEN PlainIdentifier(val)
    ELSE IF /\ val.kind = "JSXExpressionContainer"
            /\ val.expression.kind \in {"TSAsExpression", "TypeCastExpression"}
            /\ val.expression.expression.kind = "Identifier"
    THEN Some(val.expression.expression.name)
    ELSE None

\* The plain names the attributes of a list are written with.
PlainNames(attrs) ==
    {attrs[k].name.name :
        k \in {j \in 1..Len(attrs) : /\ attrs[j].kind = "JSXAttribute"
                                     /\ attrs[j].name.kind = "JSXIdentifier"}}

\* The name begins with the two letters "on".
BeginsWithOn(name) == Len(name) >= 2 /\ SubSeq(name, 1, 2) = "on"

\* C15 as stated: an attribute bound to an identifier x has the property
\* "expr:x"; events has an entry for an attribute exactly when its name
\* begins with "on" and its value is a bound identifier, every other
\* expression producing none; and for every key k of events whose attribute
\* occurs once, properties[k] = "expr:" + events[k].
C15_EventsAsStated ==
    ElementAnalysed =>
        LET attrs == TheElement.attributes
        IN  /\ DOMAIN TheRecord.events \subseteq PlainNames(attrs)
            /\ \A name \in PlainNames(attrs) :
                   LET ks == Named(attrs, name)
                       ids == {k \in ks : PlainIdentifier(attrs[k].value) # None}
                   IN  /\ PlainIdentifier(attrs[Last(ks)].value) # None =>
                              TheRecord.props[name] =
                                  Str("expr:" \o PlainIdentifier(attrs[Last(ks)].value)[1])
                       /\ name \in DOMAIN TheRecord.events <=>
                              BeginsWithOn(name) /\ ids # {}
                       /\ (Cardinality(ks) = 1 /\ name \in DOMAIN TheRecord.events) =>
                              TheRecord.props[name] =
                                  Str("expr:" \o TheRecord.events[name])

\* C15 (amended): an attribute bound to an identifier x, written {x} or
\* under a type cast {x as T}, has the property "expr:x"; events has an entry
\* for a name exactly when the name begins with "on" and some attribute of
\* that name is bound to such an identifier (the entry is the identifier of
\* the last such attribute), every other expression producing none; and for
\* every key k of events whose attribute occurs once, properties[k] =
\* "expr:" + events[k].
C15_EventsIffIdentifier ==
    ElementAnalysed =>
        LET attrs == TheElement.attributes
        IN  /\ DOMAIN TheRecord.events \subseteq PlainNames(attrs)
            /\ \A name \in PlainNames(attrs) :
                   LET ks == Named(attrs, name)
                       ids == {k \in ks : CastIdentifier(attrs[k].value) # None}
                   IN  /\ CastIdentifier(attrs[Last(ks)].value) # None =>
                              TheRecord.props[name] =
                                  Str("expr:" \o CastIdentifier(attrs[Last(ks)].value)[1])
                       /\ name \in DOMAIN TheRecord.events <=>
                              BeginsWithOn(name) /\ ids # {}
                       /\ name \in DOMAIN TheRecord.events =>
                              TheRecord.events[name] =
                                  CastIdentifier(attrs[Last(ids)].value)[1]
                       /\ (Cardinality(ks) = 1 /\ name \in DOMAIN TheRecord.events) =>
                              TheRecord.props[name] =
                                  Str("expr:" \o TheRecord.events[name])

\* <button onClick={handleSave} data-testid={handleSave}/> was analysed: both
\* properties are "expr:handleSave" and events holds onClick alone.
C15_Witness ==
    /\ ElementAnalysed
    /\ TheElement.attributes =
           <<JSXAttribute("onClick", JSXExpressionContainer(Id("handleSave"))),
             JSXAttribute("data-testid", JSXExpressionContainer(Id("handleSave")))>>
    /\ TheRecord.props["onClick"] = Str("expr:handleSave")
    /\ TheRecord.props["data-testid"] = Str("expr:handleSave")
    /\ DOMAIN TheRecord.events = {"onClick"}
    /\ TheRecord.events["onClick"] = "handleSave"

\* C16 as stated: every value of properties is boolean true or a string (a
\* literal string, "expr:<id>", "dynamic" or "unknown"), boolean false never
\* appears, and spread attributes add no key.
C16_PropertyValuesAsStated ==
    ElementAnalysed =>
        /\ DOMAIN TheRecord.props = PlainNames(TheElement.attributes)
        /\ \A name \in DOMAIN TheRecord.props :
               \/ TheRecord.props[name] = Bool(TRUE)
               \/ TheRecord.props[name].t = "string"

\* The expression under the type casts of e, if any.
Uncast(e) ==
    IF e.kind \in {"TSAsExpression", "TypeCastExpression"} THEN e.expression ELSE e

\* The value properties holds for an attribute written with value val.
PropertyOf(val) ==
    IF val.kind = "null" THEN Bool(TRUE)
    ELSE IF val.kind = "StringLiteral" THEN Str(val.value)
    ELSE IF val.kind # "JSXExpressionContainer" THEN Str("unknown")
    ELSE LET e == Uncast(val.expression)
         IN  IF e.kind = "Identifier" THEN Str("expr:" \o e.name)
             ELSE IF e.kind = "StringLiteral" THEN Str(e.value)
             ELSE IF e.kind = "NumericLiteral" THEN Str(ToString(e.value))
             ELSE IF e.kind = "BooleanLiteral" THEN Bool(e.value)
             ELSE Str("dynamic")

\* C16 (amended): properties has one key per plain attribute name, spread
\* attributes and namespaced names adding none, and the value of a key is
\* decided by the last attribute of that name: boolean true for a valueless
\* attribute, the string for a string literal, "expr:<id>" for an identifier,
\* the string or the decimal numeral for a string or numeric literal in
\* braces, the boolean itself (true or false) for a boolean literal in braces,
\* each of these also under a type cast, "dynamic" for any other expression
\* and "unknown" for a value that is neither a string nor an expression.
C16_PropertyValues ==
    ElementAnalysed =>
        LET attrs == TheElement.attributes
        IN  /\ DOMAIN TheRecord.props = PlainNames(attrs)
            /\ \A name \in PlainNames(attrs) :
                   TheRecord.props[name] =
                       PropertyOf(attrs[Last(Named(attrs, name))].value)

\* <button {...rest} data-testid={false}/> was analysed: the one key holds
\* boolean false.
C16_Witness ==
    /\ ElementAnalysed
    /\ TheElement.attributes =
           <<JSXSpreadAttribute,
             JSXAttribute("data-testid",
                          JSXExpressionContainer(BooleanLiteral(FALSE)))>>
    /\ DOMAIN TheRecord.props = {"data-testid"}
    /\ TheRecord.props["data-testid"] = Bool(FALSE)

\* The names a first parameter contributes: the field names of a
\* destructuring pattern in order, its rest binding included; the name of an
\* identifier; nothing for no parameter or any other shape.
FirstParameterNames(params) ==
    IF params = <<>> THEN <<>>
    ELSE IF params[1].kind = "Identifier" THEN <<params[1].name>>
    ELSE IF params[1].kind = "ObjectPattern"
    THEN [k \in 1..Len(params[1].properties) |->
             IF params[1].properties[k].kind = "RestElement"
             THEN params[1].properties[k].argument.name
             ELSE params[1].properties[k].key.name]
    ELSE <<>>

\* The parameters of the function node i declares or binds.
ParamsOf(n) == IF n.kind = "FunctionDeclaration" THEN n.params ELSE n.init.params

\* C17: props are inferred only from the first parameter of the resolved
\* component's own declaration; parameters of any other function in the file
\* never contribute. Stated for files that declare the component at the top
\* level.
C17_PropsFromComponentOnly ==
    pc = "returned" =>
        \A c \in 1..Len(ast.nodes) :
            (/\ TopLevelFunction(ast.nodes, c)
             /\ isIdentifierNamed(ast.nodes[c].id, result.name))
            => result.props = FirstParameterNames(ParamsOf(ast.nodes[c]))

\* Every character of s is white space.
IsBlank(s) ==
    \A k \in 1..Len(s) : SubSeq(s, k, k) \in {" ", "\n", "\t", "\r"}

\* t is s without its leading and trailing white space.
IsTrimOf(t, s) ==
    \E a, b \in 0..Len(s) :
        /\ a + b <= Len(s)
        /\ IsBlank(SubSeq(s, 1, a))
        /\ IsBlank(SubSeq(s, Len(s) - b + 1, Len(s)))
        /\ t = SubSeq(s, a + 1, Len(s) - b)
        /\ t # "" => /\ ~IsBlank(SubSeq(t, 1, 1))
                     /\ ~IsBlank(SubSeq(t, Len(t), Len(t)))

C19_EffectDependenciesIsASet ==
    pc = "returned" =>
        \A j, k \in 1..Len(result.effectDeps) :
            j # k => result.effectDeps[j] # result.effectDeps[k]

\* C20: any sequence of invocations on unchanged source returns identical
\* values: what an invocation returns or throws is decided by the file it is
\* given alone, whatever was analysed before it, on the same file or another.
C20_InvocationsAgree ==
    /\ \A j, k \in 1..Len(ended) :
           ended[j].source = ended[k].source =>
               /\ ended[j].result = ended[k].result
               /\ ended[j].error = ended[k].error
    /\ \A k \in 1..Len(ended) :
           (pc \in {"returned", "raised"} /\ ended[k].source = source) =>
               /\ result = ended[k].result
               /\ error = ended[k].error
    /\ pc = "returned" => result = analyzeTree(source.ast)

\* The component with the Save button was analysed, then the effect
\* scenario, then the Save button again: the third result is the first.
C20_Witness ==
    /\ pc = "returned"
    /\ Len(ended) = 2
    /\ source = Parsed(ExportDefault(Id("App")), ComponentWith(SaveButton))
    /\ ended[1].source = source
    /\ ended[2].source = Parsed(ExportDefault(Id("App")), SubmitScenario)
    /\ ended[2].result.apis # <<>>
    /\ result = ended[1].result
    /\ Len(result.elements) = 1
    /\ result.apis = <<>>

\* C21: in every Analyzed Component returned, usesFetch is true if and only
\* if apis contains a record of kind fetch, usesAxios is true if and only if
\* apis contains a record of kind axios, and a non-empty apis implies
\* hasEffects.
C21_FlagsSummarizeApis ==
    result # Undefined =>
        /\ result.usesFetch <=>
               \E k \in 1..Len(result.apis) : result.apis[k].type = "fetch"
        /\ result.usesAxios <=>
               \E k \in 1..Len(result.apis) : result.apis[k].type = "axios"
        /\ result.apis # <<>> => result.effects

\* The component that fetches in an effect, in a handler and in its body
\* was analysed: apis holds the one record of the effect, usesFetch is
\* raised with it and usesAxios is not.
C21_Witness ==
    /\ pc = "returned"
    /\ ast.nodes = SubmitScenario
    /\ result.apis = <<[type |-> "fetch", url |-> "/api/items"]>>
    /\ result.usesFetch
    /\ ~result.usesAxios
    /\ result.effects

====
